---------------------------- MODULE Spec2Model ----------------------------
(***************************************************************************)
(* Model of the pedigree layout engine (core/layout/PedigreeLayout.ts) and *)
(* of the pedigree store that calls it (store/pedigreeStore.ts), together  *)
(* with the toolbar handlers that drive the store.                         *)
(*                                                                         *)
(* Person ids are the naturals 1..MaxPersons, NoId stands for null, and    *)
(* Ghost is an id that names no person (a dangling reference).  JS Maps    *)
(* iterate in insertion order, so every Map of the program is a sequence   *)
(* of records with unique `id` fields.  Coordinates are fixed-point: one   *)
(* pixel is Px units, so that the halvings of the centering passes stay    *)
(* exact (Half refuses an odd argument).                                   *)
(***************************************************************************)
EXTENDS Integers, Sequences, FiniteSets, TLC

\* ------------------------------------------------------------------ bounds
MaxPersons == 3
MaxLinks == 2
MaxRels == 2
MaxPasses == 8
MaxOps == 4

\* ------------------------------------------------- DEFAULT_LAYOUT_OPTIONS
nodeWidth == 50
nodeHeight == 50
horizontalSpacing == 30
verticalSpacing == 100
siblingSpacing == 40
spouseSpacing == 60
TopMargin == 50
SafeStep == 5

Px == 256
NoId == 0
Undefined == -1

PersonIds == 1..MaxPersons
Ghost == MaxPersons + 1
RefIds == PersonIds \cup {Ghost}
Sexes == {"male", "female", "unknown"}

\* ----------------------------------------------------------------- helpers
Max(a, b) == IF a >= b THEN a ELSE b
Min(a, b) == IF a <= b THEN a ELSE b
Abs(a) == IF a >= 0 THEN a ELSE 0 - a
Half(v) == IF v % 2 = 0 THEN v \div 2 ELSE CHOOSE h \in {} : 2 * h = v

\* TLC evaluates operator arguments on first use; Strict(v, e) evaluates the
\* accumulated value v before going on with e, as the program does.
Strict(v, e) == IF v = v THEN e ELSE e

SeqMin(s) == CHOOSE v \in {s[i] : i \in DOMAIN s} : \A j \in DOMAIN s : v <= s[j]
SeqMax(s) == CHOOSE v \in {s[i] : i \in DOMAIN s} : \A j \in DOMAIN s : v >= s[j]
Includes(s, e) == \E i \in DOMAIN s : s[i] = e
Filter(s, e) == SelectSeq(s, LAMBDA v : v # e)

\* Map.has / index of the entry with key k in an insertion-ordered Map
Has(m, k) == \E i \in DOMAIN m : m[i].id = k
Find(m, k) == CHOOSE i \in DOMAIN m : m[i].id = k
Ids(m) == {m[i].id : i \in DOMAIN m}
\* Map.set: an existing key keeps its place, a new key goes last
MapSet(m, k, e) == IF Has(m, k) THEN [m EXCEPT ![Find(m, k)] = e] ELSE Append(m, e)
\* Map.delete
MapDelete(m, k) == SelectSeq(m, LAMBDA e : e.id # k)

\* pedigree.persons.get(id): only used where Has(ps, id)
Person(ps, id) == ps[Find(ps, id)]

\* minGeneration.get(id) ?? 0 and minGeneration.set(id, g)
GenGet(mg, id) == IF Has(mg, id) THEN mg[Find(mg, id)].gen ELSE 0
GenSet(mg, id, g) == MapSet(mg, id, [id |-> id, gen |-> g])

\* ------------------------------------------------------ assignGenerations
\* Step 1. st = [mg, visited, ret]: the minGeneration Map, the visited Set of
\* the current top-level call, and the value the call returns.
RECURSIVE calculateMinGeneration(_, _, _)
\* minGeneration.set(personId, minGen); return minGen: g1 is minGen after the
\* father's part, m the state after the mother's part
SetMinGeneration(person, g1, m) ==
  LET minGen == IF person.motherId # NoId THEN Max(g1, m.ret + 1) ELSE g1
  IN [mg |-> GenSet(m.mg, person.id, minGen), visited |-> m.visited, ret |-> minGen]

\* f is the state after the father's part
MotherPart(ps, person, f) ==
  SetMinGeneration(person,
                   IF person.fatherId # NoId THEN Max(0, f.ret + 1) ELSE 0,
                   IF person.motherId # NoId
                   THEN calculateMinGeneration(ps, person.motherId, f) ELSE f)

\* v is the state after visited.add(personId)
FatherPart(ps, person, v) ==
  MotherPart(ps, person,
             IF person.fatherId # NoId
             THEN calculateMinGeneration(ps, person.fatherId, v) ELSE v)

calculateMinGeneration(ps, personId, st) ==
  IF personId \in st.visited
  THEN [st EXCEPT !.ret = GenGet(st.mg, personId)]
  ELSE IF ~Has(ps, personId)
  THEN [st EXCEPT !.visited = @ \cup {personId}, !.ret = 0]
  ELSE FatherPart(ps, Person(ps, personId), [st EXCEPT !.visited = @ \cup {personId}])

RECURSIVE Step1(_, _, _)
Step1(ps, i, mg) ==
  Strict(mg,
    IF i > Len(ps) THEN mg
    ELSE Step1(ps, i + 1,
               calculateMinGeneration(ps, ps[i].id, [mg |-> mg, visited |-> {}, ret |-> 0]).mg))

\* Step 2, one person: currentMin is read once, before the loop over spouseIds.
RECURSIVE Step2Spouses(_, _, _, _, _)
Step2Spouses(st, pid, currentMin, spouseIds, j) ==
  Strict(st,
    IF j > Len(spouseIds) THEN st
    ELSE LET spouseMin == GenGet(st.mg, spouseIds[j])
             nxt == IF spouseMin > currentMin
                    THEN [mg |-> GenSet(st.mg, pid, spouseMin), changed |-> TRUE]
                    ELSE IF currentMin > spouseMin
                    THEN [mg |-> GenSet(st.mg, spouseIds[j], currentMin), changed |-> TRUE]
                    ELSE st
         IN Step2Spouses(nxt, pid, currentMin, spouseIds, j + 1))

RECURSIVE Step2Pass(_, _, _)
Step2Pass(ps, i, st) ==
  Strict(st,
    IF i > Len(ps) THEN st
    ELSE Step2Pass(ps, i + 1,
                   Step2Spouses(st, ps[i].id, GenGet(st.mg, ps[i].id), ps[i].spouseIds, 1)))

\* while (changed): values only ever rise to a value already in the Map, so
\* this loop ends on every input.
RECURSIVE Step2(_, _)
Step2Again(ps, r) == IF r.changed THEN Step2(ps, r.mg) ELSE r.mg

Step2(ps, mg) ==
  Strict(mg, Step2Again(ps, Step2Pass(ps, 1, [mg |-> mg, changed |-> FALSE])))

\* Step 3, children of one person: parentGen is read once.
RECURSIVE Step3Children(_, _, _, _)
Step3Children(st, parentGen, childrenIds, j) ==
  Strict(st,
    IF j > Len(childrenIds) THEN st
    ELSE LET childMin == GenGet(st.mg, childrenIds[j])
             nxt == IF childMin <= parentGen
                    THEN [mg |-> GenSet(st.mg, childrenIds[j], parentGen + 1), changed |-> TRUE]
                    ELSE st
         IN Step3Children(nxt, parentGen, childrenIds, j + 1))

RECURSIVE Step3ChildPass(_, _, _)
Step3ChildPass(ps, i, st) ==
  Strict(st,
    IF i > Len(ps) THEN st
    ELSE Step3ChildPass(ps, i + 1,
                        Step3Children(st, GenGet(st.mg, ps[i].id), ps[i].childrenIds, 1)))

\* Step3Spouses without its second set(): the person is raised to a spouse,
\* a spouse is never raised to the person
RECURSIVE Step3SpousesOneWay(_, _, _, _, _)
Step3SpousesOneWay(st, pid, currentMin, spouseIds, j) ==
  Strict(st,
    IF j > Len(spouseIds) THEN st
    ELSE LET spouseMin == GenGet(st.mg, spouseIds[j])
             nxt == IF spouseMin > currentMin
                    THEN [mg |-> GenSet(st.mg, pid, spouseMin), changed |-> TRUE]
                    ELSE st
         IN Step3SpousesOneWay(nxt, pid, currentMin, spouseIds, j + 1))

RECURSIVE Step3Spouses(_, _, _, _, _)
Step3Spouses(st, pid, currentMin, spouseIds, j) ==
  Strict(st,
    IF j > Len(spouseIds) THEN st
    ELSE LET spouseMin == GenGet(st.mg, spouseIds[j])
             maxGen == Max(spouseMin, currentMin)
             nxt == IF spouseMin # currentMin
                    THEN [mg |-> GenSet(GenSet(st.mg, pid, maxGen), spouseIds[j], maxGen),
                          changed |-> TRUE]
                    ELSE st
         IN Step3Spouses(nxt, pid, currentMin, spouseIds, j + 1))

RECURSIVE Step3SpousePass(_, _, _)
Step3SpousePass(ps, i, st) ==
  Strict(st,
    IF i > Len(ps) THEN st
    ELSE Step3SpousePass(ps, i + 1,
                         Step3Spouses(st, ps[i].id, GenGet(st.mg, ps[i].id), ps[i].spouseIds, 1)))

\* One pass of the step 3 while loop: children first, then spouses.
Step3Pass(ps, mg) ==
  Step3SpousePass(ps, 1, Step3ChildPass(ps, 1, [mg |-> mg, changed |-> FALSE]))

\* while (changed) of step 3.  The code has no iteration cap; the model runs
\* at most `fuel` passes and reports hung when passes are still changing the
\* Map then (HungIsDivergence shows that such a loop never ends).
RECURSIVE Step3(_, _, _)
Step3Again(ps, r, fuel) ==
  IF ~r.changed THEN [hung |-> FALSE, mg |-> r.mg]
  ELSE IF fuel = 0 THEN [hung |-> TRUE, mg |-> r.mg]
  ELSE Step3(ps, r.mg, fuel - 1)

Step3(ps, mg, fuel) ==
  Strict(mg, Step3Again(ps, Step3Pass(ps, mg), fuel))

\* Step 4: Math.min over every value of the Map (dangling ids included)
MinGen(mg) == IF Len(mg) > 0 THEN SeqMin([i \in DOMAIN mg |-> mg[i].gen]) ELSE 0
\* step 4 without the subtraction of the minimum
Unnormalized(mg) == mg

Normalized(mg) == [i \in DOMAIN mg |-> [id |-> mg[i].id, gen |-> mg[i].gen - MinGen(mg)]]

\* person.generation = gen for every person with an entry
StoreGenerations(ps, pg) ==
  [i \in DOMAIN ps |->
     IF Has(pg, ps[i].id) THEN [ps[i] EXCEPT !.generation = GenGet(pg, ps[i].id)] ELSE ps[i]]

\* generations: Map<number, Person[]>; its keys, and the bucket of one key in
\* the insertion order of minGeneration
GenKeys(pg) == {pg[i].gen : i \in DOMAIN pg}
RECURSIVE Bucket(_, _, _, _)
Bucket(ps, pg, g, i) ==
  IF i > Len(pg) THEN <<>>
  ELSE IF pg[i].gen = g /\ Has(ps, pg[i].id)
       THEN <<pg[i].id>> \o Bucket(ps, pg, g, i + 1)
       ELSE Bucket(ps, pg, g, i + 1)

\* [hung, persons, pg]: pg is personGenerations (normalized minGeneration)
Step4(ps, isHung, pg) ==
  [hung |-> isHung,
   persons |-> IF isHung THEN ps ELSE StoreGenerations(ps, pg),
   pg |-> pg]

Step4Of(ps, s3) == Step4(ps, s3.hung, Normalized(s3.mg))

assignGenerations(ps) ==
  Step4Of(ps, Step3(ps, Step2(ps, Step1(ps, 1, <<>>)), MaxPasses))

\* ------------------------------------------------------- buildFamilyUnits
GenOr0(person) == IF person.generation = Undefined THEN 0 ELSE person.generation

\* one unit per relationship whose two persons both exist
RECURSIVE RelationshipUnits(_, _, _)
RelationshipUnits(ps, rels, i) ==
  IF i > Len(rels) THEN <<>>
  ELSE IF Has(ps, rels[i].person1Id) /\ Has(ps, rels[i].person2Id)
       THEN <<[id |-> <<"rel", rels[i].id>>,
               parents |-> <<rels[i].person1Id, rels[i].person2Id>>,
               children |-> rels[i].childrenIds,
               generation |-> GenOr0(Person(ps, rels[i].person1Id))]>>
            \o RelationshipUnits(ps, rels, i + 1)
       ELSE RelationshipUnits(ps, rels, i + 1)

\* children of the units (built so far) that have personId among their parents
CoveredChildren(fus, personId) ==
  UNION {{fus[u].children[c] : c \in DOMAIN fus[u].children} :
           u \in {k \in DOMAIN fus : Includes(fus[k].parents, personId)}}

\* single-parent units, appended person by person
RECURSIVE SingleParentUnits(_, _, _)
SingleParentUnits(ps, i, fus) ==
  Strict(fus,
    IF i > Len(ps) THEN fus
    ELSE LET person == ps[i]
             covered == CoveredChildren(fus, person.id)
             uncoveredChildren == SelectSeq(person.childrenIds, LAMBDA c : c \notin covered)
         IN IF Len(person.childrenIds) = 0 \/ Len(uncoveredChildren) = 0
            THEN SingleParentUnits(ps, i + 1, fus)
            ELSE SingleParentUnits(ps, i + 1,
                   Append(fus, [id |-> <<"single", person.id>>,
                                parents |-> <<person.id>>,
                                children |-> uncoveredChildren,
                                generation |-> GenOr0(person)])))

buildFamilyUnits(ps, rels) == SingleParentUnits(ps, 1, RelationshipUnits(ps, rels, 1))

\* Math.max(parentsWidth, childrenWidth) + 2 * margin, in pixels
calculateFamilyUnitWidth(unit) ==
  LET parentsWidth == IF Len(unit.parents) = 2 THEN nodeWidth * 2 + spouseSpacing
                      ELSE nodeWidth
      childrenWidth == IF Len(unit.children) > 0
                       THEN Len(unit.children) * nodeWidth
                            + (Len(unit.children) - 1) * siblingSpacing
                       ELSE 0
  IN Max(parentsWidth, childrenWidth) + horizontalSpacing * 2

\* ------------------------------------------------------ findSharedPersons
\* personToUnits: Map<personId, FamilyUnit[]> as a sequence of [id, units]
RECURSIVE PushParents(_, _, _, _)
PushParents(p2u, unit, parents, j) ==
  Strict(p2u,
    IF j > Len(parents) THEN p2u
    ELSE LET k == parents[j]
             old == IF Has(p2u, k) THEN p2u[Find(p2u, k)].units ELSE <<>>
         IN PushParents(MapSet(p2u, k, [id |-> k, units |-> Append(old, unit)]),
                        unit, parents, j + 1))

RECURSIVE PersonToUnits(_, _, _)
PersonToUnits(fus, i, p2u) ==
  Strict(p2u,
    IF i > Len(fus) THEN p2u
    ELSE PersonToUnits(fus, i + 1, PushParents(p2u, fus[i], fus[i].parents, 1)))

findSharedPersons(fus) ==
  SelectSeq(PersonToUnits(fus, 1, <<>>), LAMBDA e : Len(e.units) > 1)

\* -------------------------------------------- sortGenerationWithFamilyUnits
\* spouses of one shared person: every other parent of its units that is in
\* this generation and not processed yet (processed is not updated meanwhile)
RECURSIVE UnitSpouses(_, _, _, _, _)
UnitSpouses(persons, processed, sharedId, parents, j) ==
  IF j > Len(parents) THEN <<>>
  ELSE (IF parents[j] # sharedId /\ Includes(persons, parents[j])
           /\ parents[j] \notin processed
        THEN <<parents[j]>> ELSE <<>>)
       \o UnitSpouses(persons, processed, sharedId, parents, j + 1)

RECURSIVE CollectSpouses(_, _, _, _, _)
CollectSpouses(persons, processed, sharedId, units, i) ==
  IF i > Len(units) THEN <<>>
  ELSE UnitSpouses(persons, processed, sharedId, units[i].parents, 1)
       \o CollectSpouses(persons, processed, sharedId, units, i + 1)

\* SortShared placing the shared person before all of its spouses
SharedFirst(st, sharedId, spouses) ==
  [result |-> st.result \o <<sharedId>> \o spouses,
   processed |-> st.processed \cup {sharedId} \cup {spouses[k] : k \in DOMAIN spouses}]

RECURSIVE SortSharedFirst(_, _, _, _)
SortSharedFirst(persons, shared, i, st) ==
  Strict(st,
    IF i > Len(shared) THEN st
    ELSE IF ~Includes(persons, shared[i].id) \/ shared[i].id \in st.processed
         THEN SortSharedFirst(persons, shared, i + 1, st)
         ELSE SortSharedFirst(persons, shared, i + 1,
                SharedFirst(st, shared[i].id,
                            CollectSpouses(persons, st.processed, shared[i].id,
                                           shared[i].units, 1))))

\* st = [result, processed]
RECURSIVE SortShared(_, _, _, _)
SortShared(persons, shared, i, st) ==
  Strict(st,
    IF i > Len(shared) THEN st
    ELSE LET sharedId == shared[i].id IN
         IF ~Includes(persons, sharedId) \/ sharedId \in st.processed
         THEN SortShared(persons, shared, i + 1, st)
         ELSE LET spouses == CollectSpouses(persons, st.processed, sharedId,
                                            shared[i].units, 1)
                  first == IF Len(spouses) > 0 THEN <<spouses[1]>> ELSE <<>>
                  rest == IF Len(spouses) > 0 THEN Tail(spouses) ELSE <<>>
              IN SortShared(persons, shared, i + 1,
                   [result |-> st.result \o first \o <<sharedId>> \o rest,
                    processed |-> st.processed \cup {sharedId}
                                  \cup {spouses[k] : k \in DOMAIN spouses}]))

\* the spouses of one remaining person that join its group
RECURSIVE GroupSpouses(_, _, _, _)
GroupSpouses(persons, spouseIds, j, st) ==
  Strict(st,
    IF j > Len(spouseIds) THEN st
    ELSE IF Includes(persons, spouseIds[j]) /\ spouseIds[j] \notin st.processed
         THEN GroupSpouses(persons, spouseIds, j + 1,
                [result |-> Append(st.result, spouseIds[j]),
                 processed |-> st.processed \cup {spouseIds[j]}])
         ELSE GroupSpouses(persons, spouseIds, j + 1, st))

RECURSIVE SortRemaining(_, _, _, _)
SortRemaining(ps, persons, i, st) ==
  Strict(st,
    IF i > Len(persons) THEN st
    ELSE IF persons[i] \in st.processed
         THEN SortRemaining(ps, persons, i + 1, st)
         ELSE SortRemaining(ps, persons, i + 1,
                GroupSpouses(persons, Person(ps, persons[i]).spouseIds, 1,
                  [result |-> Append(st.result, persons[i]),
                   processed |-> st.processed \cup {persons[i]}])))

\* persons: the ids of one generation; shared: the shared persons of it
sortGenerationWithFamilyUnits(ps, persons, shared) ==
  IF Len(persons) <= 1 THEN persons
  ELSE SortRemaining(ps, persons, 1,
         SortShared(persons, shared, 1, [result |-> <<>>, processed |-> {}])).result

\* sorted: the function generation key -> ordered ids of that generation
sortGenerationsWithFamilyUnits(ps, pg, sharedPersons) ==
  [g \in GenKeys(pg) |->
     sortGenerationWithFamilyUnits(ps, Bucket(ps, pg, g, 1),
       SelectSeq(sharedPersons,
                 LAMBDA e : Has(ps, e.id) /\ Person(ps, e.id).generation = g))]

\* ------------------------------------------------------ positions (nodes)
\* A LayoutNode is [id, person, x, y, generation, order]: id is its key in the
\* Map, person the id of the Person it refers to.
RECURSIVE SetToSortedSeq(_)
SetToSortedSeq(S) ==
  IF S = {} THEN <<>>
  ELSE LET m == CHOOSE v \in S : \A w \in S : v <= w
       IN <<m>> \o SetToSortedSeq(S \ {m})

\* Array.prototype.sort((a, b) => a.x - b.x): stable
RECURSIVE InsertByX(_, _)
InsertByX(sorted, e) ==
  IF Len(sorted) = 0 THEN <<e>>
  ELSE IF sorted[Len(sorted)].x <= e.x THEN Append(sorted, e)
       ELSE Append(InsertByX(SubSeq(sorted, 1, Len(sorted) - 1), e), sorted[Len(sorted)])

RECURSIVE SortByX(_, _)
SortByX(s, i) == IF i = 0 THEN <<>> ELSE InsertByX(SortByX(s, i - 1), s[i])

\* the nodes of one generation, sorted by x
NodesInGen(positions, generation) ==
  LET nodes == SelectSeq(positions, LAMBDA n : n.generation = generation)
  IN SortByX(nodes, Len(nodes))

\* areSpouses looking each person up in their own spouseIds
areSpousesOfSelf(ps, a, b) ==
  Includes(Person(ps, a).spouseIds, a) \/ Includes(Person(ps, b).spouseIds, b)

areSpouses(ps, a, b) ==
  Includes(Person(ps, a).spouseIds, b) \/ Includes(Person(ps, b).spouseIds, a)

minDistance(ps, a, b) ==
  (nodeWidth + (IF areSpouses(ps, a, b) THEN spouseSpacing ELSE horizontalSpacing)) * Px

getParentCenterX(person, positions) ==
  LET hasFather == person.fatherId # NoId /\ Has(positions, person.fatherId)
      hasMother == person.motherId # NoId /\ Has(positions, person.motherId)
      fx == positions[Find(positions, person.fatherId)].x
      mx == positions[Find(positions, person.motherId)].x
  IN IF hasFather /\ hasMother THEN [some |-> TRUE, x |-> Half(fx + mx)]
     ELSE IF hasFather THEN [some |-> TRUE, x |-> fx]
     ELSE IF hasMother THEN [some |-> TRUE, x |-> mx]
     ELSE [some |-> FALSE, x |-> 0]

\* ------------------------------------------------------ calculatePositions
\* the x of persons[i]: currentX advanced by the spacing, or the parents'
\* center when that is further right
Advanced(ps, persons, i, currentX) ==
  IF i > 1
  THEN currentX + ((IF areSpouses(ps, persons[i - 1], persons[i])
                    THEN spouseSpacing ELSE horizontalSpacing) + nodeWidth) * Px
  ELSE currentX

PreferParent(gen, advanced, parentX) ==
  IF parentX.some /\ gen > 0 /\ parentX.x >= advanced THEN parentX.x ELSE advanced

\* PlaceX keeping the x a person already has
PlaceXSticky(ps, persons, gen, i, currentX, result) ==
  IF Person(ps, persons[i]).x # Undefined
  THEN Person(ps, persons[i]).x
  ELSE PreferParent(gen, Advanced(ps, persons, i, currentX),
                    getParentCenterX(Person(ps, persons[i]), result))

PlaceX(ps, persons, gen, i, currentX, result) ==
  PreferParent(gen, Advanced(ps, persons, i, currentX),
               getParentCenterX(Person(ps, persons[i]), result))

\* PlaceNode naming the person by its place in the generation
PlaceNodeByOrder(id, gen, i, x) ==
  [id |-> id, person |-> i, x |-> x,
   y |-> gen * (nodeHeight + verticalSpacing) * Px,
   generation |-> gen, order |-> i - 1]

PlaceNode(id, gen, i, x) ==
  [id |-> id, person |-> id, x |-> x,
   y |-> gen * (nodeHeight + verticalSpacing) * Px,
   generation |-> gen, order |-> i - 1]

RECURSIVE PlaceGeneration(_, _, _, _, _, _)
\* result.set(person.id, node), and on to the next person with currentX = x
PlaceAt(ps, persons, gen, i, x, result) ==
  PlaceGeneration(ps, persons, gen, i + 1, x,
                  MapSet(result, persons[i], PlaceNode(persons[i], gen, i, x)))

PlaceGeneration(ps, persons, gen, i, currentX, result) ==
  Strict(result,
    IF i > Len(persons) THEN result
    ELSE PlaceAt(ps, persons, gen, i, PlaceX(ps, persons, gen, i, currentX, result),
                 result))

RECURSIVE PlaceGenerations(_, _, _, _, _)
PlaceGenerations(ps, sorted, genKeys, k, result) ==
  Strict(result,
    IF k > Len(genKeys) THEN result
    ELSE PlaceGenerations(ps, sorted, genKeys, k + 1,
           PlaceGeneration(ps, sorted[genKeys[k]], genKeys[k], 1, 0, result)))

calculatePositions(ps, sorted) ==
  PlaceGenerations(ps, sorted, SetToSortedSeq(DOMAIN sorted), 1, <<>>)

\* --------------------------------------- detectCollisions, resolveCollisions
GapTooSmall(ps, prev, curr) == curr.x - prev.x < minDistance(ps, prev.person, curr.person)

detectCollisions(ps, positions, generation) ==
  LET nodesInGen == NodesInGen(positions, generation)
  IN \E i \in 2..Len(nodesInGen) : GapTooSmall(ps, nodesInGen[i - 1], nodesInGen[i])

\* the shift applied to the offending node only
ShiftOne(positions, order, j, shift) ==
  IF j > Len(order) THEN positions
  ELSE [positions EXCEPT ![Find(positions, order[j])].x = @ + shift]

\* node.x += shift for the nodes order[i..]
RECURSIVE ShiftFrom(_, _, _, _)
ShiftFrom(positions, order, j, shift) ==
  Strict(positions,
    IF j > Len(order) THEN positions
    ELSE ShiftFrom([positions EXCEPT ![Find(positions, order[j])].x = @ + shift],
                   order, j + 1, shift))

\* resolveCollisions returning after the first pair it has moved apart
RECURSIVE ResolveFirst(_, _, _, _)
ResolveFirst(ps, positions, order, i) ==
  Strict(positions,
    IF i > Len(order) THEN positions
    ELSE LET prev == positions[Find(positions, order[i - 1])]
             curr == positions[Find(positions, order[i])]
             shift == minDistance(ps, prev.person, curr.person) - (curr.x - prev.x)
         IN IF shift > 0 THEN ShiftFrom(positions, order, i, shift)
            ELSE ResolveFirst(ps, positions, order, i + 1))

\* order: the keys of the generation's nodes as sorted on entry
RECURSIVE ResolveFrom(_, _, _, _)
ResolveFrom(ps, positions, order, i) ==
  Strict(positions,
    IF i > Len(order) THEN positions
    ELSE LET prev == positions[Find(positions, order[i - 1])]
             curr == positions[Find(positions, order[i])]
             shift == minDistance(ps, prev.person, curr.person) - (curr.x - prev.x)
         IN ResolveFrom(ps,
                        IF shift > 0 THEN ShiftFrom(positions, order, i, shift) ELSE positions,
                        order, i + 1))

\* resolveCollisions moving nothing
KeepCollisions(ps, positions, generation) == positions

resolveCollisions(ps, positions, generation) ==
  LET nodesInGen == NodesInGen(positions, generation)
  IN ResolveFrom(ps, positions, [i \in DOMAIN nodesInGen |-> nodesInGen[i].id], 2)

\* while (detectCollisions(...) && maxIterations > 0) resolveCollisions(...)
RECURSIVE ResolveLoop(_, _, _, _)
ResolveLoop(ps, positions, generation, maxIterations) ==
  Strict(positions,
    IF detectCollisions(ps, positions, generation) /\ maxIterations > 0
    THEN ResolveLoop(ps, resolveCollisions(ps, positions, generation), generation,
                     maxIterations - 1)
    ELSE positions)

\* ------------------------------- checkOffsetCollision, calculateSafeOffset
\* siblings: a sequence of person ids
Simulated(genNodes, siblings, offset) ==
  [i \in DOMAIN genNodes |->
     [id |-> genNodes[i].id,
      x |-> IF Includes(siblings, genNodes[i].person)
            THEN genNodes[i].x + offset ELSE genNodes[i].x]]

\* simulatedPositions: sorted by x
TooClose(simulatedPositions) ==
  \E i \in 2..Len(simulatedPositions) :
     simulatedPositions[i].x - simulatedPositions[i - 1].x
       < (nodeWidth + horizontalSpacing) * Px

SortedByX(s) == SortByX(s, Len(s))

checkOffsetCollision(siblings, offset, positions, generation) ==
  TooClose(SortedByX(Simulated(NodesInGen(positions, generation), siblings, offset)))

\* for (testOffset = 0; |testOffset| < |desiredOffset|; testOffset += step):
\* the loop tests step * k for k = 0, 1, ..., keeps the last offset tested
\* without a collision and stops at the first one with a collision.
OffsetStep(desiredOffset) ==
  IF desiredOffset > 0 THEN SafeStep * Px ELSE 0 - SafeStep * Px

OffsetTests(desiredOffset) ==
  {k \in 0..(Abs(desiredOffset) \div (SafeStep * Px)) :
     SafeStep * Px * k < Abs(desiredOffset)}

\* passed: the tests made before the first colliding one
LastPassed(step, passed) ==
  IF passed = {} THEN 0
  ELSE step * (CHOOSE k \in passed : \A j \in passed : j <= k)

PassedTests(tests, colliding) == {k \in tests : \A c \in colliding : k < c}

CollidingTests(siblings, step, tests, positions, generation) ==
  {k \in tests : checkOffsetCollision(siblings, step * k, positions, generation)}

SafeOffsetAmong(siblings, step, tests, positions, generation) ==
  LastPassed(step,
             PassedTests(tests,
                         CollidingTests(siblings, step, tests, positions, generation)))

\* calculateSafeOffset returning the whole shift it was asked for
WholeOffset(siblings, desiredOffset, positions, generation) == desiredOffset

calculateSafeOffset(siblings, desiredOffset, positions, generation) ==
  SafeOffsetAmong(siblings, OffsetStep(desiredOffset), OffsetTests(desiredOffset),
                  positions, generation)

\* --------------------------------------------------- adjustParentPositions
AddX(positions, id, offset) == [positions EXCEPT ![Find(positions, id)].x = @ + offset]

\* person.spouseIds.map(get).find(s => same generation and a shared child)
RECURSIVE FindCoParent(_, _, _)
FindCoParent(ps, person, j) ==
  IF j > Len(person.spouseIds) THEN NoId
  ELSE LET sid == person.spouseIds[j] IN
       IF Has(ps, sid) /\ Person(ps, sid).generation = person.generation
          /\ \E c \in DOMAIN Person(ps, sid).childrenIds :
                Includes(person.childrenIds, Person(ps, sid).childrenIds[c])
       THEN sid
       ELSE FindCoParent(ps, person, j + 1)

\* (Math.min(...childXs) + Math.max(...childXs)) / 2
ChildCenter(positions, person) ==
  LET childNodes == SelectSeq(person.childrenIds, LAMBDA c : Has(positions, c))
      childXs == [i \in DOMAIN childNodes |-> positions[Find(positions, childNodes[i])].x]
  IN Half(SeqMin(childXs) + SeqMax(childXs))

\* the x the children are compared with: the couple's center, or the parent
ParentCenter(positions, person, spouse) ==
  IF spouse # NoId
  THEN Half(positions[Find(positions, person.id)].x + positions[Find(positions, spouse)].x)
  ELSE positions[Find(positions, person.id)].x

\* the safe offset when it is not 0, else the whole offset
MoveBy(positions, person, spouse, safeOffset, offset) ==
  LET applied == IF Abs(safeOffset) > 0 THEN safeOffset ELSE offset
  IN IF spouse # NoId
     THEN AddX(AddX(positions, person.id, applied), spouse, applied)
     ELSE AddX(positions, person.id, applied)

MoveToward(positions, person, spouse, gen, offset) ==
  MoveBy(positions, person, spouse,
         calculateSafeOffset(IF spouse # NoId THEN <<person.id, spouse>> ELSE <<person.id>>,
                             offset, positions, gen),
         offset)

\* the move of one parent (with its co-parent when spouse # NoId)
MoveParent(ps, positions, person, spouse, gen) ==
  MoveToward(positions, person, spouse, gen,
             ChildCenter(positions, person) - ParentCenter(positions, person, spouse))

\* one iteration of the loop over persons; st = [positions, processedAsCouple]
AdjustParent(ps, person, spouse, gen, st) ==
  IF person.id \in st.processedAsCouple
     \/ Len(person.childrenIds) = 0
     \/ ~\E c \in DOMAIN person.childrenIds : Has(st.positions, person.childrenIds[c])
  THEN st
  ELSE [positions |-> MoveParent(ps, st.positions, person, spouse, gen),
        processedAsCouple |-> IF spouse # NoId
                              THEN st.processedAsCouple \cup {spouse}
                              ELSE st.processedAsCouple]

AdjustPerson(ps, person, gen, st) ==
  AdjustParent(ps, person, FindCoParent(ps, person, 1), gen, st)

RECURSIVE AdjustParentsOfGen(_, _, _, _, _)
AdjustParentsOfGen(ps, persons, gen, i, st) ==
  Strict(st,
    IF i > Len(persons) THEN st
    ELSE AdjustParentsOfGen(ps, persons, gen, i + 1,
                            AdjustPerson(ps, Person(ps, persons[i]), gen, st)))

ParentIterations == 5

\* bottom generation first
RECURSIVE AdjustParentsFrom(_, _, _, _, _)
AdjustParentsFrom(ps, sorted, genKeys, k, positions) ==
  Strict(positions,
    IF k < 1 THEN positions
    ELSE AdjustParentsFrom(ps, sorted, genKeys, k - 1,
           ResolveLoop(ps,
             AdjustParentsOfGen(ps, sorted[genKeys[k]], genKeys[k], 1,
                                [positions |-> positions, processedAsCouple |-> {}]).positions,
             genKeys[k], ParentIterations)))

adjustParentPositions(ps, sorted, positions) ==
  LET genKeys == SetToSortedSeq(DOMAIN sorted)
  IN AdjustParentsFrom(ps, sorted, genKeys, Len(genKeys), positions)

\* ------------------------------------------------- adjustChildrenPositions
\* groupSiblings: the groups in the order their parent key is first met
ParentKey(ps, id) == <<Person(ps, id).fatherId, Person(ps, id).motherId>>

RECURSIVE groupSiblings(_, _, _, _)
groupSiblings(ps, persons, i, seen) ==
  IF i > Len(persons) THEN <<>>
  ELSE LET key == ParentKey(ps, persons[i]) IN
       IF key \in seen THEN groupSiblings(ps, persons, i + 1, seen)
       ELSE <<SelectSeq(persons, LAMBDA q : ParentKey(ps, q) = key)>>
            \o groupSiblings(ps, persons, i + 1, seen \cup {key})

\* node.x += offset for every sibling in turn
RECURSIVE ShiftSiblings(_, _, _, _)
ShiftSiblings(positions, siblings, j, offset) ==
  Strict(positions,
    IF j > Len(siblings) THEN positions
    ELSE ShiftSiblings(AddX(positions, siblings[j], offset), siblings, j + 1, offset))

\* the whole offset when it makes no collision, else the safe part of it
ShiftSafely(positions, siblings, gen, offset) ==
  IF ~checkOffsetCollision(siblings, offset, positions, gen)
  THEN ShiftSiblings(positions, siblings, 1, offset)
  ELSE ShiftSiblings(positions, siblings, 1,
                     calculateSafeOffset(siblings, offset, positions, gen))

SiblingsCenter(positions, siblings) ==
  Half(positions[Find(positions, siblings[1])].x
       + positions[Find(positions, siblings[Len(siblings)])].x)

MoveUnder(positions, siblings, gen, parentCenter) ==
  IF ~parentCenter.some THEN positions
  ELSE ShiftSafely(positions, siblings, gen,
                   parentCenter.x - SiblingsCenter(positions, siblings))

MoveSiblings(ps, positions, siblings, gen) ==
  MoveUnder(positions, siblings, gen, getParentCenterX(Person(ps, siblings[1]), positions))

RECURSIVE AdjustGroups(_, _, _, _, _)
AdjustGroups(ps, groups, gen, i, positions) ==
  Strict(positions,
    IF i > Len(groups) THEN positions
    ELSE AdjustGroups(ps, groups, gen, i + 1, MoveSiblings(ps, positions, groups[i], gen)))

ChildIterations == 5

\* the first generation key is skipped
RECURSIVE AdjustChildrenFrom(_, _, _, _, _)
AdjustChildrenFrom(ps, sorted, genKeys, k, positions) ==
  Strict(positions,
    IF k > Len(genKeys) THEN positions
    ELSE AdjustChildrenFrom(ps, sorted, genKeys, k + 1,
           ResolveLoop(ps,
             AdjustGroups(ps, groupSiblings(ps, sorted[genKeys[k]], 1, {}), genKeys[k], 1,
                          positions),
             genKeys[k], ChildIterations)))

\* adjustChildrenPositions moving no sibling group
KeepChildrenPositions(ps, sorted, positions) == positions

adjustChildrenPositions(ps, sorted, positions) ==
  AdjustChildrenFrom(ps, sorted, SetToSortedSeq(DOMAIN sorted), 2, positions)

\* -------------------------------------------------- step 7 and centerLayout
LayoutIterations == 10

RECURSIVE ResolveAll(_, _, _, _)
ResolveAll(ps, genKeys, k, positions) ==
  Strict(positions,
    IF k > Len(genKeys) THEN positions
    ELSE ResolveAll(ps, genKeys, k + 1,
                    ResolveLoop(ps, positions, genKeys[k], LayoutIterations)))

\* centerLayout with offsetY = -minY
centerLayoutNoMargin(positions) ==
  IF Len(positions) = 0 THEN positions
  ELSE LET xs == [i \in DOMAIN positions |-> positions[i].x]
           ys == [i \in DOMAIN positions |-> positions[i].y]
           offsetX == 0 - Half(SeqMin(xs) + SeqMax(xs))
           offsetY == 0 - SeqMin(ys)
       IN [i \in DOMAIN positions |->
             [positions[i] EXCEPT !.x = @ + offsetX, !.y = @ + offsetY]]

\* centerLayout with offsetX = -minX
centerLayoutLeft(positions) ==
  IF Len(positions) = 0 THEN positions
  ELSE LET xs == [i \in DOMAIN positions |-> positions[i].x]
           ys == [i \in DOMAIN positions |-> positions[i].y]
           offsetX == 0 - SeqMin(xs)
           offsetY == 0 - SeqMin(ys) + TopMargin * Px
       IN [i \in DOMAIN positions |->
             [positions[i] EXCEPT !.x = @ + offsetX, !.y = @ + offsetY]]

centerLayout(positions) ==
  IF Len(positions) = 0 THEN positions
  ELSE LET xs == [i \in DOMAIN positions |-> positions[i].x]
           ys == [i \in DOMAIN positions |-> positions[i].y]
           offsetX == 0 - Half(SeqMin(xs) + SeqMax(xs))
           offsetY == 0 - SeqMin(ys) + TopMargin * Px
       IN [i \in DOMAIN positions |->
             [positions[i] EXCEPT !.x = @ + offsetX, !.y = @ + offsetY]]

\* person.x = node.x; person.y = node.y: every write of a node's x or y is
\* paired with the same write on node.person, and layout never reads them
\* WritePositions building each Person anew from its id, sex and position
WritePositionsFresh(ps, positions) ==
  [i \in DOMAIN ps |->
     [id |-> ps[i].id, sex |-> ps[i].sex, fatherId |-> NoId, motherId |-> NoId,
      spouseIds |-> <<>>, childrenIds |-> <<>>,
      x |-> positions[Find(positions, ps[i].id)].x,
      y |-> positions[Find(positions, ps[i].id)].y,
      generation |-> ps[i].generation]]

WritePositions(ps, positions) ==
  [i \in DOMAIN ps |->
     IF Has(positions, ps[i].id)
     THEN [ps[i] EXCEPT !.x = positions[Find(positions, ps[i].id)].x,
                        !.y = positions[Find(positions, ps[i].id)].y]
     ELSE ps[i]]

\* ------------------------------------------------------------------ layout
\* layout(pedigree): [hung, persons, relationships, nodes]; hung means the
\* call does not return.
Returned(gps, rels, centered) ==
  [hung |-> FALSE, persons |-> WritePositions(gps, centered),
   relationships |-> rels, nodes |-> centered]

\* steps 4 to 8: positions, parents over children, children under parents,
\* remaining collisions, centering
Positioned(gps, genKeys, sorted) ==
  centerLayout(
    ResolveAll(gps, genKeys, 1,
      adjustChildrenPositions(gps, sorted,
        adjustParentPositions(gps, sorted, calculatePositions(gps, sorted)))))

\* steps 2 and 3: family units, shared persons and the order within generations
Sorted(gps, rels, pg) ==
  sortGenerationsWithFamilyUnits(gps, pg, findSharedPersons(buildFamilyUnits(gps, rels)))

LayoutOf(ps, rels, generations) ==
  IF generations.hung
  THEN [hung |-> TRUE, persons |-> ps, relationships |-> rels, nodes |-> <<>>]
  ELSE Returned(generations.persons, rels,
                Positioned(generations.persons, SetToSortedSeq(GenKeys(generations.pg)),
                           Sorted(generations.persons, rels, generations.pg)))

layout(ps, rels) ==
  IF Len(ps) = 0
  THEN [hung |-> FALSE, persons |-> ps, relationships |-> rels, nodes |-> <<>>]
  ELSE LayoutOf(ps, rels, assignGenerations(ps))

\* ============================================================ state machine
VARIABLES
  persons,        \* pedigree.persons: Map<string, Person>, insertion order
  relationships,  \* pedigree.relationships: Map<string, Relationship>
  layoutNodes,    \* the store's layoutNodes: Map<string, LayoutNode>
  hung,           \* a layout call was entered that does not return; persons
                  \* and relationships are then the pedigree it was given
  phase,          \* "input" | "loaded" | "dragged" | "relaid" | "restored" | "store"
  budget,         \* steps still allowed by the bounds
  nextId,         \* person ids handed out so far (ids are never reused)
  nextRel,        \* relationship ids handed out so far
  prevNodes,      \* layoutNodes as returned by loadPedigree, or as they were
                  \* before resolveCollisions was called on them
  lastDrag        \* the arguments of the latest updatePersonPosition call

vars == <<persons, relationships, layoutNodes, hung, phase, budget, nextId, nextRel,
          prevNodes, lastDrag>>

\* no updatePersonPosition call yet
NoDrag == [id |-> NoId, x |-> 0, y |-> 0]

\* createPerson(id, familyId, sex): no parents, no spouses, no children, and
\* neither position nor generation
createPerson(id, sex) ==
  [id |-> id, sex |-> sex, fatherId |-> NoId, motherId |-> NoId,
   spouseIds |-> <<>>, childrenIds |-> <<>>,
   x |-> Undefined, y |-> Undefined, generation |-> Undefined]

\* createRelationship(person1Id, person2Id, type)
createRelationship(id, person1Id, person2Id) ==
  [id |-> id, person1Id |-> person1Id, person2Id |-> person2Id, childrenIds |-> <<>>]

\* ------------------------------------------------- a pedigree given to load
\* The pedigree handed to loadPedigree is any value of type Pedigree: the
\* actions below build one field at a time, references to absent persons
\* (Ghost) and to the person itself included.
Isolated(n) ==
  [persons |-> [i \in 1..n |-> createPerson(i, "unknown")], relationships |-> <<>>]

\* a married couple, 1 and 2, as addRelationship leaves it
Couple ==
  [persons |-> <<[createPerson(1, "male") EXCEPT !.spouseIds = <<2>>],
                 [createPerson(2, "female") EXCEPT !.spouseIds = <<1>>]>>,
   relationships |-> <<createRelationship(1, 1, 2)>>]

CoupleAndSingle ==
  [Couple EXCEPT !.persons = Append(@, createPerson(3, "unknown"))]

\* father 1, mother 2 and their child 3, every link present on both sides
Family ==
  [persons |-> <<[createPerson(1, "male") EXCEPT !.spouseIds = <<2>>, !.childrenIds = <<3>>],
                 [createPerson(2, "female") EXCEPT !.spouseIds = <<1>>, !.childrenIds = <<3>>],
                 [createPerson(3, "unknown") EXCEPT !.fatherId = 1, !.motherId = 2]>>,
   relationships |-> <<[createRelationship(1, 1, 2) EXCEPT !.childrenIds = <<3>>]>>]

Seeds == {Isolated(n) : n \in 0..MaxPersons} \cup {Couple, CoupleAndSingle, Family}

InitInput ==
  /\ \E seed \in Seeds :
       /\ persons = seed.persons
       /\ relationships = seed.relationships
       /\ nextRel = Len(seed.relationships)
  /\ layoutNodes = <<>>
  /\ hung = FALSE
  /\ phase = "input"
  /\ budget = MaxLinks
  /\ nextId = 0
  /\ prevNodes = <<>>
  /\ lastDrag = NoDrag

InputStep ==
  /\ phase = "input"
  /\ budget > 0
  /\ budget' = budget - 1
  /\ UNCHANGED <<layoutNodes, hung, phase, nextId, prevNodes, lastDrag>>

SetFather ==
  /\ InputStep
  /\ \E i \in DOMAIN persons, q \in RefIds :
       /\ persons[i].fatherId = NoId
       /\ persons' = [persons EXCEPT ![i].fatherId = q]
  /\ UNCHANGED <<relationships, nextRel>>

SetMother ==
  /\ InputStep
  /\ \E i \in DOMAIN persons, q \in RefIds :
       /\ persons[i].motherId = NoId
       /\ persons' = [persons EXCEPT ![i].motherId = q]
  /\ UNCHANGED <<relationships, nextRel>>

PushSpouse ==
  /\ InputStep
  /\ \E i \in DOMAIN persons, q \in RefIds :
       /\ ~Includes(persons[i].spouseIds, q)
       /\ persons' = [persons EXCEPT ![i].spouseIds = Append(@, q)]
  /\ UNCHANGED <<relationships, nextRel>>

PushChild ==
  /\ InputStep
  /\ \E i \in DOMAIN persons, q \in RefIds :
       /\ ~Includes(persons[i].childrenIds, q)
       /\ persons' = [persons EXCEPT ![i].childrenIds = Append(@, q)]
  /\ UNCHANGED <<relationships, nextRel>>

PutRelationship ==
  /\ InputStep
  /\ nextRel < MaxRels
  /\ nextRel' = nextRel + 1
  /\ \E a \in Ids(persons), b \in RefIds, cs \in {<<>>} \cup {<<c>> : c \in Ids(persons)} :
       relationships' = Append(relationships,
          [createRelationship(nextRel + 1, a, b) EXCEPT !.childrenIds = cs])
  /\ UNCHANGED persons

\* ---------------------------------------------------------------- the store
\* The store's functions, as functions of the store state
\* s = [persons, relationships, layoutNodes, hung].  A call made after a
\* layout call that does not return is never reached: it leaves s alone.
\* The set() around a layout call that does not return never happens; s then
\* keeps its layoutNodes and shows the pedigree the call was given.
Store ==
  [persons |-> persons, relationships |-> relationships,
   layoutNodes |-> layoutNodes, hung |-> hung]

Commit(s) ==
  /\ persons' = s.persons
  /\ relationships' = s.relationships
  /\ layoutNodes' = s.layoutNodes
  /\ hung' = s.hung

\* const layoutNodes = layout.layout(newPedigree); set({pedigree, layoutNodes})
SetResult(s, r) ==
  IF r.hung
  THEN [persons |-> r.persons, relationships |-> r.relationships,
        layoutNodes |-> s.layoutNodes, hung |-> TRUE]
  ELSE [persons |-> r.persons, relationships |-> r.relationships,
        layoutNodes |-> r.nodes, hung |-> FALSE]

SetWithLayout(s, newPersons, newRelationships) ==
  SetResult(s, layout(newPersons, newRelationships))

loadPedigree(s, ps, rels) ==
  IF s.hung THEN s ELSE SetWithLayout(s, ps, rels)

addPerson(s, person) ==
  IF s.hung THEN s
  ELSE SetWithLayout(s, MapSet(s.persons, person.id, person), s.relationships)

\* { ...person, ...updates }
Spread(person, updates) ==
  [f \in DOMAIN person |-> IF f \in DOMAIN updates THEN updates[f] ELSE person[f]]

updatePerson(s, id, updates) ==
  IF s.hung \/ ~Has(s.persons, id) THEN s
  ELSE [s EXCEPT !.persons = MapSet(s.persons, id, Spread(Person(s.persons, id), updates))]

ClearReferences(p, id) ==
  [p EXCEPT !.fatherId = IF @ = id THEN NoId ELSE @,
            !.motherId = IF @ = id THEN NoId ELSE @,
            !.spouseIds = Filter(@, id),
            !.childrenIds = Filter(@, id)]

\* deletePerson keeping the layoutNodes it found
deletePersonKeepNodes(s, id) ==
  IF s.hung \/ ~Has(s.persons, id) THEN s
  ELSE [s EXCEPT
          !.persons = MapDelete([i \in DOMAIN s.persons |-> ClearReferences(s.persons[i], id)],
                                id),
          !.relationships =
             SelectSeq(s.relationships, LAMBDA rel : rel.person1Id # id /\ rel.person2Id # id)]

deletePerson(s, id) ==
  IF s.hung \/ ~Has(s.persons, id) THEN s
  ELSE LET cleared == [i \in DOMAIN s.persons |-> ClearReferences(s.persons[i], id)]
           newPersons == MapDelete(cleared, id)
           newRelationships ==
             SelectSeq(s.relationships, LAMBDA rel : rel.person1Id # id /\ rel.person2Id # id)
       IN SetWithLayout(s, newPersons, newRelationships)

\* updatePersonPosition followed by a layout of the pedigree
updatePersonPositionRelaid(s, id, x, y) ==
  IF s.hung \/ ~Has(s.persons, id) THEN s
  ELSE SetWithLayout(s,
                     MapSet(s.persons, id, Spread(Person(s.persons, id), [x |-> x, y |-> y])),
                     s.relationships)

updatePersonPosition(s, id, x, y) ==
  IF s.hung \/ ~Has(s.persons, id) THEN s
  ELSE [s EXCEPT
          !.persons = MapSet(s.persons, id,
                             Spread(Person(s.persons, id), [x |-> x, y |-> y])),
          !.layoutNodes =
             IF Has(s.layoutNodes, id)
             THEN MapSet(s.layoutNodes, id,
                         Spread(s.layoutNodes[Find(s.layoutNodes, id)], [x |-> x, y |-> y]))
             ELSE s.layoutNodes]

AddSpouseRef(ps, id, spouseId) ==
  IF Has(ps, id) /\ ~Includes(Person(ps, id).spouseIds, spouseId)
  THEN MapSet(ps, id, [Person(ps, id) EXCEPT !.spouseIds = Append(@, spouseId)])
  ELSE ps

addRelationship(s, relationship) ==
  IF s.hung THEN s
  ELSE LET newRelationships == MapSet(s.relationships, relationship.id, relationship)
           \* person1 and person2 are both read before either is written
           p1 == AddSpouseRef(s.persons, relationship.person1Id, relationship.person2Id)
           p2 == IF Has(s.persons, relationship.person2Id)
                    /\ ~Includes(Person(s.persons, relationship.person2Id).spouseIds,
                                 relationship.person1Id)
                 THEN MapSet(p1, relationship.person2Id,
                        [Person(s.persons, relationship.person2Id)
                           EXCEPT !.spouseIds = Append(@, relationship.person1Id)])
                 ELSE p1
       IN SetWithLayout(s, p2, newRelationships)

updateRelationship(s, id, updates) ==
  IF s.hung \/ ~Has(s.relationships, id) THEN s
  ELSE [s EXCEPT !.relationships =
          MapSet(s.relationships, id, Spread(s.relationships[Find(s.relationships, id)], updates))]

RemoveSpouseRef(ps, person, spouseId) ==
  MapSet(ps, person.id, [person EXCEPT !.spouseIds = Filter(@, spouseId)])

deleteRelationship(s, id) ==
  IF s.hung \/ ~Has(s.relationships, id) THEN s
  ELSE LET relationship == s.relationships[Find(s.relationships, id)]
           newRelationships == MapDelete(s.relationships, id)
           p1 == IF Has(s.persons, relationship.person1Id)
                 THEN RemoveSpouseRef(s.persons, Person(s.persons, relationship.person1Id),
                                      relationship.person2Id)
                 ELSE s.persons
           \* person2 was read from the Map before person1 was replaced
           p2 == IF Has(s.persons, relationship.person2Id)
                 THEN RemoveSpouseRef(p1, Person(s.persons, relationship.person2Id),
                                      relationship.person1Id)
                 ELSE p1
       IN SetWithLayout(s, p2, newRelationships)

recalculateLayout(s) ==
  IF s.hung THEN s ELSE SetWithLayout(s, s.persons, s.relationships)

\* FilePanel: loadPedigree(newPedigree)
LoadPedigree ==
  /\ phase = "input"
  /\ Commit(loadPedigree(Store, persons, relationships))
  /\ prevNodes' = layoutNodes'
  /\ phase' = "loaded"
  /\ UNCHANGED <<budget, nextId, nextRel, lastDrag>>

\* PedigreeCanvas onDragEnd: updatePersonPosition(personId, x, y), for a person of the
\* pedigree or for an id the pedigree does not hold
DragPoints == {[x |-> (nodeWidth + horizontalSpacing) * Px, y |-> 0]}

UpdatePersonPosition ==
  /\ phase \in {"loaded", "store"}
  /\ ~hung
  /\ phase = "store" => budget > 0
  /\ \E id \in Ids(persons) \cup {Ghost}, pt \in DragPoints :
       /\ Commit(updatePersonPosition(Store, id, pt.x, pt.y))
       /\ lastDrag' = [id |-> id, x |-> pt.x, y |-> pt.y]
  /\ phase' = IF phase = "store" THEN "store" ELSE "dragged"
  /\ budget' = IF phase = "store" THEN budget - 1 ELSE budget
  /\ UNCHANGED <<nextId, nextRel, prevNodes>>

\* Toolbar "Auto Align": recalculateLayout()
RecalculateLayout ==
  /\ phase \in {"loaded", "dragged", "store"}
  /\ ~hung
  /\ Commit(recalculateLayout(Store))
  /\ phase' = IF phase = "store" THEN "store"
              ELSE IF phase = "dragged" THEN "restored" ELSE "relaid"
  /\ UNCHANGED <<budget, nextId, nextRel, prevNodes, lastDrag>>

NextInput ==
  \/ SetFather
  \/ SetMother
  \/ PushSpouse
  \/ PushChild
  \/ PutRelationship
  \/ LoadPedigree
  \/ UpdatePersonPosition
  \/ RecalculateLayout

LayoutSpec == InitInput /\ [][NextInput]_vars

\* ------------------------------------------------- the scenario pedigrees
\* Pedigrees of up to MaxScenarioPersons persons as the editor builds them,
\* loaded in every order of the persons Map.
MaxChildren == 3
MaxScenarioPersons == 5

\* father 1 and mother 2, married, and their children 3 .. k + 2
FamilyOf(k) ==
  LET children == [i \in 1..k |-> i + 2] IN
  [persons |->
     <<[createPerson(1, "male") EXCEPT !.spouseIds = <<2>>, !.childrenIds = children],
       [createPerson(2, "female") EXCEPT !.spouseIds = <<1>>, !.childrenIds = children]>>
     \o [i \in 1..k |-> [createPerson(i + 2, "unknown") EXCEPT !.fatherId = 1, !.motherId = 2]],
   relationships |-> <<[createRelationship(1, 1, 2) EXCEPT !.childrenIds = children]>>]

\* 1 married to 2 and then to 3, with child 4 of 1 and 2 and child 5 of 1 and 3
TwoUnions ==
  [persons |->
     <<[createPerson(1, "male") EXCEPT !.spouseIds = <<2, 3>>, !.childrenIds = <<4, 5>>],
       [createPerson(2, "female") EXCEPT !.spouseIds = <<1>>, !.childrenIds = <<4>>],
       [createPerson(3, "female") EXCEPT !.spouseIds = <<1>>, !.childrenIds = <<5>>],
       [createPerson(4, "unknown") EXCEPT !.fatherId = 1, !.motherId = 2],
       [createPerson(5, "unknown") EXCEPT !.fatherId = 1, !.motherId = 3]>>,
   relationships |-> <<[createRelationship(1, 1, 2) EXCEPT !.childrenIds = <<4>>],
                       [createRelationship(2, 1, 3) EXCEPT !.childrenIds = <<5>>]>>]

\* two unmarried fathers: 1 with children 3 and 4, 2 with child 5
TwoFathers ==
  [persons |->
     <<[createPerson(1, "male") EXCEPT !.childrenIds = <<3, 4>>],
       [createPerson(2, "male") EXCEPT !.childrenIds = <<5>>],
       [createPerson(3, "unknown") EXCEPT !.fatherId = 1],
       [createPerson(4, "unknown") EXCEPT !.fatherId = 1],
       [createPerson(5, "unknown") EXCEPT !.fatherId = 2]>>,
   relationships |-> <<>>]

\* 1 and 2 married with child 3; 1 has a further child 4 that the
\* relationship does not list (Toolbar handleAddChild on 1)
CoupleAndOtherChild ==
  [persons |->
     <<[createPerson(1, "male") EXCEPT !.spouseIds = <<2>>, !.childrenIds = <<3, 4>>],
       [createPerson(2, "female") EXCEPT !.spouseIds = <<1>>, !.childrenIds = <<3>>],
       [createPerson(3, "unknown") EXCEPT !.fatherId = 1, !.motherId = 2],
       [createPerson(4, "unknown") EXCEPT !.fatherId = 1]>>,
   relationships |-> <<[createRelationship(1, 1, 2) EXCEPT !.childrenIds = <<3>>]>>]

\* three generations: 1 is the father of 2, 2 and 3 are married, 4 is their child
ThreeGenerations ==
  [persons |->
     <<[createPerson(1, "male") EXCEPT !.childrenIds = <<2>>],
       [createPerson(2, "male") EXCEPT !.fatherId = 1, !.spouseIds = <<3>>,
                                       !.childrenIds = <<4>>],
       [createPerson(3, "female") EXCEPT !.spouseIds = <<2>>, !.childrenIds = <<4>>],
       [createPerson(4, "unknown") EXCEPT !.fatherId = 2, !.motherId = 3]>>,
   relationships |-> <<[createRelationship(1, 2, 3) EXCEPT !.childrenIds = <<4>>]>>]

\* what the editor leaves after: add 1 and 2; relationship tool, spouse of 1
\* and 2, twice; delete the second relationship (the spouseIds of both are
\* emptied, the first relationship stays); handleAddSpouse on 2 creates 3;
\* handleAddChild on 1 creates 4
FormerPartner ==
  [persons |->
     <<[createPerson(1, "male") EXCEPT !.childrenIds = <<4>>],
       [createPerson(2, "female") EXCEPT !.spouseIds = <<3>>],
       [createPerson(3, "male") EXCEPT !.spouseIds = <<2>>],
       [createPerson(4, "unknown") EXCEPT !.fatherId = 1]>>,
   relationships |-> <<createRelationship(1, 1, 2), createRelationship(2, 2, 3)>>]

Scenarios ==
  {FamilyOf(k) : k \in 1..MaxChildren}
    \cup {TwoUnions, TwoFathers, CoupleAndOtherChild, ThreeGenerations, FormerPartner}

\* the orders in which a Map of n persons can have been filled
Orders(n) == {f \in [1..n -> 1..n] : \A i, j \in 1..n : i # j => f[i] # f[j]}

InitScenario ==
  /\ \E seed \in Scenarios :
       /\ Len(seed.persons) <= MaxScenarioPersons
       /\ \E f \in Orders(Len(seed.persons)) :
            persons = [i \in 1..Len(seed.persons) |-> seed.persons[f[i]]]
       /\ relationships = seed.relationships
       /\ nextRel = Len(seed.relationships)
  /\ layoutNodes = <<>>
  /\ hung = FALSE
  /\ phase = "input"
  /\ budget = 0
  /\ nextId = 0
  /\ prevNodes = <<>>
  /\ lastDrag = NoDrag

NextScenario ==
  \/ LoadPedigree
  \/ UpdatePersonPosition
  \/ RecalculateLayout

ScenarioSpec == InitScenario /\ [][NextScenario]_vars

\* ------------------------------------------- resolveCollisions on its own
\* resolveCollisions(positions, generation) given any positions: up to
\* MaxNodes nodes over two generations, each on one of the slots of a grid
\* half a minimum distance wide, so that equal x, a gap too small for any
\* pair and a gap too small for spouses only all occur; a person lists at
\* most one spouse, whether or not that spouse lists them back.
\* calculateSafeOffset is given the same positions.
MaxNodes == 3
MaxSlots == 3

CollisionSlots == {k * (((nodeWidth + horizontalSpacing) * Px) \div 2) : k \in 0..MaxSlots}
CollisionGenerations == {0, 1}

InitPositions ==
  /\ \E n \in 1..MaxNodes :
       \E sp \in [1..n -> 0..n], xs \in [1..n -> CollisionSlots],
          gs \in [1..n -> CollisionGenerations] :
         /\ \A i \in 1..n : sp[i] # i
         /\ persons = [i \in 1..n |->
                         [createPerson(i, "unknown") EXCEPT
                            !.spouseIds = IF sp[i] = NoId THEN <<>> ELSE <<sp[i]>>,
                            !.generation = gs[i]]]
         /\ layoutNodes = [i \in 1..n |-> PlaceNode(i, gs[i], i, xs[i])]
  /\ relationships = <<>>
  /\ hung = FALSE
  /\ phase = "positions"
  /\ budget = 0
  /\ nextId = 0
  /\ nextRel = 0
  /\ prevNodes = <<>>
  /\ lastDrag = NoDrag

\* this.resolveCollisions(positions, generation)
ResolveCollisions ==
  /\ phase \in {"positions", "resolved"}
  /\ \E generation \in CollisionGenerations :
       layoutNodes' = resolveCollisions(persons, layoutNodes, generation)
  /\ prevNodes' = layoutNodes
  /\ phase' = "resolved"
  /\ UNCHANGED <<persons, relationships, hung, budget, nextId, nextRel, lastDrag>>

\* the shifts asked of calculateSafeOffset: none, less than one step, not a
\* multiple of the step, and up to one minimum distance
DesiredOffsets == {d * Px : d \in {-80, -12, 0, 3, 40}}

\* the groups calculateSafeOffset is given: persons of the generation
GroupsOf(ps, generation) ==
  {group \in SUBSET Ids(ps) :
     group # {} /\ \A id \in group : Person(ps, id).generation = generation}

\* const safeOffset = this.calculateSafeOffset(siblings, offset, positions, gen);
\* node.x += safeOffset for every node of the group
ApplySafeOffset ==
  /\ phase = "positions"
  /\ \E generation \in CollisionGenerations, desiredOffset \in DesiredOffsets :
       \E group \in GroupsOf(persons, generation) :
         layoutNodes' =
           ShiftSiblings(layoutNodes, SetToSortedSeq(group), 1,
                         calculateSafeOffset(SetToSortedSeq(group), desiredOffset,
                                             layoutNodes, generation))
  /\ prevNodes' = layoutNodes
  /\ phase' = "shifted"
  /\ UNCHANGED <<persons, relationships, hung, budget, nextId, nextRel, lastDrag>>

NextCollision ==
  \/ ResolveCollisions
  \/ ApplySafeOffset

CollisionSpec == InitPositions /\ [][NextCollision]_vars

\* ------------------------------------------------------------ the editor
\* The store after createNewPedigree('FAM001'); a null pedigree behaves as
\* the empty one in every handler below.
Init ==
  /\ persons = <<>>
  /\ relationships = <<>>
  /\ layoutNodes = <<>>
  /\ hung = FALSE
  /\ phase = "store"
  /\ budget = MaxOps
  /\ nextId = 0
  /\ nextRel = 0
  /\ prevNodes = <<>>
  /\ lastDrag = NoDrag

\* v ?? d
OrElse(v, d) == IF v = Undefined THEN d ELSE v

EditorStep ==
  /\ phase = "store"
  /\ ~hung
  /\ budget > 0
  /\ budget' = budget - 1
  /\ UNCHANGED <<phase, prevNodes, lastDrag>>

HandleAddPerson ==
  /\ EditorStep
  /\ nextId < MaxPersons
  /\ \E sex \in Sexes :
       LET existingNodes == Len(persons)
           person == [createPerson(nextId + 1, sex) EXCEPT
                        !.x = (100 + (existingNodes % 5) * 100) * Px,
                        !.y = (100 + (existingNodes \div 5) * 150) * Px]
       IN Commit(addPerson(Store, person))
  /\ nextId' = nextId + 1
  /\ UNCHANGED nextRel

HandleDelete ==
  /\ EditorStep
  /\ \E selectedPersonId \in Ids(persons) : Commit(deletePerson(Store, selectedPersonId))
  /\ UNCHANGED <<nextId, nextRel>>

HandleAddSpouse ==
  /\ EditorStep
  /\ nextId < MaxPersons
  /\ nextRel < MaxRels
  /\ \E selectedPersonId \in Ids(persons) :
       LET selectedPerson == Person(persons, selectedPersonId)
           newSex == IF selectedPerson.sex = "male" THEN "female"
                     ELSE IF selectedPerson.sex = "female" THEN "male" ELSE "unknown"
           id == nextId + 1
           newPerson == [createPerson(id, newSex) EXCEPT
                           !.x = OrElse(selectedPerson.x, 0) + 80 * Px,
                           !.y = OrElse(selectedPerson.y, 100 * Px)]
           relationship == createRelationship(nextRel + 1, selectedPersonId, id)
       IN Commit(addRelationship(addPerson(Store, newPerson), relationship))
  /\ nextId' = nextId + 1
  /\ nextRel' = nextRel + 1

HandleAddChild ==
  /\ EditorStep
  /\ nextId < MaxPersons
  /\ \E selectedPersonId \in Ids(persons) :
       LET selectedPerson == Person(persons, selectedPersonId)
           id == nextId + 1
           child == [createPerson(id, "unknown") EXCEPT
                       !.x = OrElse(selectedPerson.x, 0),
                       !.y = OrElse(selectedPerson.y, 0) + 120 * Px,
                       !.fatherId = IF selectedPerson.sex = "male"
                                    THEN selectedPersonId ELSE NoId,
                       !.motherId = IF selectedPerson.sex = "female"
                                    THEN selectedPersonId ELSE NoId]
           added == addPerson(Store, child)
           updated == updatePerson(added, selectedPersonId,
                        [childrenIds |-> Append(selectedPerson.childrenIds, id)])
       IN Commit(recalculateLayout(updated))
  /\ nextId' = nextId + 1
  /\ UNCHANGED nextRel

HandleAddParents ==
  /\ EditorStep
  /\ nextId + 2 <= MaxPersons
  /\ nextRel < MaxRels
  /\ \E selectedPersonId \in Ids(persons) :
       LET selectedPerson == Person(persons, selectedPersonId)
           fatherId == nextId + 1
           motherId == nextId + 2
           father == [createPerson(fatherId, "male") EXCEPT
                        !.x = OrElse(selectedPerson.x, 0) - 40 * Px,
                        !.y = OrElse(selectedPerson.y, 0) - 120 * Px,
                        !.childrenIds = <<selectedPersonId>>]
           mother == [createPerson(motherId, "female") EXCEPT
                        !.x = OrElse(selectedPerson.x, 0) + 40 * Px,
                        !.y = OrElse(selectedPerson.y, 0) - 120 * Px,
                        !.childrenIds = <<selectedPersonId>>]
           added == addPerson(addPerson(Store, father), mother)
           updated == updatePerson(added, selectedPersonId,
                        [fatherId |-> fatherId, motherId |-> motherId])
           relationship == [createRelationship(nextRel + 1, fatherId, motherId)
                              EXCEPT !.childrenIds = <<selectedPersonId>>]
       IN Commit(recalculateLayout(addRelationship(updated, relationship)))
  /\ nextId' = nextId + 2
  /\ nextRel' = nextRel + 1

\* RelationshipTool: the target is any person other than the selected one
CreateSpouse ==
  /\ EditorStep
  /\ nextRel < MaxRels
  /\ \E selectedPersonId \in Ids(persons), targetPersonId \in Ids(persons) :
       /\ targetPersonId # selectedPersonId
       /\ Commit(addRelationship(Store,
                   createRelationship(nextRel + 1, selectedPersonId, targetPersonId)))
  /\ nextRel' = nextRel + 1
  /\ UNCHANGED nextId

\* make parentId a parent of childId: the two updatePerson calls of the
\* 'parent' and 'child' cases
LinkParent(s, parentId, childId) ==
  LET parent == Person(s.persons, parentId)
      linked == IF parent.sex = "male"
                THEN updatePerson(s, childId, [fatherId |-> parentId])
                ELSE IF parent.sex = "female"
                THEN updatePerson(s, childId, [motherId |-> parentId])
                ELSE s
  IN updatePerson(linked, parentId, [childrenIds |-> Append(parent.childrenIds, childId)])

CreateParent ==
  /\ EditorStep
  /\ \E selectedPersonId \in Ids(persons), targetPersonId \in Ids(persons) :
       /\ targetPersonId # selectedPersonId
       /\ Commit(LinkParent(Store, targetPersonId, selectedPersonId))
  /\ UNCHANGED <<nextId, nextRel>>

CreateChild ==
  /\ EditorStep
  /\ \E selectedPersonId \in Ids(persons), targetPersonId \in Ids(persons) :
       /\ targetPersonId # selectedPersonId
       /\ Commit(LinkParent(Store, selectedPersonId, targetPersonId))
  /\ UNCHANGED <<nextId, nextRel>>

HandleCreateRelationship ==
  \/ CreateSpouse
  \/ CreateParent
  \/ CreateChild

\* RelationshipPanel: handleDelete
RelationshipDelete ==
  /\ EditorStep
  /\ \E id \in Ids(relationships) : Commit(deleteRelationship(Store, id))
  /\ UNCHANGED <<nextId, nextRel>>

\* RelationshipPanel: handleAddChild(sex)
RelationshipAddChild ==
  /\ EditorStep
  /\ nextId < MaxPersons
  /\ \E relId \in Ids(relationships), sex \in Sexes :
       LET selectedRelationship == relationships[Find(relationships, relId)]
       IN /\ Has(persons, selectedRelationship.person1Id)
          /\ Has(persons, selectedRelationship.person2Id)
          /\ LET parent1 == Person(persons, selectedRelationship.person1Id)
                 parent2 == Person(persons, selectedRelationship.person2Id)
                 father == IF parent1.sex = "male" THEN parent1.id
                           ELSE IF parent2.sex = "male" THEN parent2.id ELSE NoId
                 mother == IF parent1.sex = "female" THEN parent1.id
                           ELSE IF parent2.sex = "female" THEN parent2.id ELSE NoId
                 childId == nextId + 1
                 child == [createPerson(childId, sex) EXCEPT
                             !.fatherId = father,
                             !.motherId = mother,
                             !.x = Half(OrElse(parent1.x, 0) + OrElse(parent2.x, 0)),
                             !.y = Max(OrElse(parent1.y, 0), OrElse(parent2.y, 0)) + 120 * Px]
                 added == addPerson(Store, child)
                 first == updatePerson(added, parent1.id,
                            [childrenIds |-> Append(parent1.childrenIds, childId)])
                 second == updatePerson(first, parent2.id,
                             [childrenIds |-> Append(parent2.childrenIds, childId)])
                 third == updateRelationship(second, selectedRelationship.id,
                            [childrenIds |-> Append(selectedRelationship.childrenIds, childId)])
             IN Commit(recalculateLayout(third))
  /\ nextId' = nextId + 1
  /\ UNCHANGED nextRel

Next ==
  \/ HandleAddPerson
  \/ HandleDelete
  \/ HandleAddSpouse
  \/ HandleAddChild
  \/ HandleAddParents
  \/ HandleCreateRelationship
  \/ RelationshipDelete
  \/ RelationshipAddChild
  \/ UpdatePersonPosition
  \/ RecalculateLayout

Spec == Init /\ [][Next]_vars

\* =============================================================== properties
\* the layout call has returned and the store holds what it returned
LaidOut == phase \in {"loaded", "relaid", "restored"} /\ ~hung

NodeOf(id) == layoutNodes[Find(layoutNodes, id)]
GenerationOf(id) == NodeOf(id).generation
Parents(p) == {p.fatherId, p.motherId} \ {NoId}

\* The links as directed edges: parent -> child of childrenIds, both
\* directions of spouseIds, child -> parent of fatherId and motherId.
ChildEdges(ps) ==
  UNION {{<<ps[i].id, ps[i].childrenIds[j]>> : j \in DOMAIN ps[i].childrenIds} :
           i \in DOMAIN ps}

SpouseEdges(ps) ==
  UNION {UNION {{<<ps[i].id, ps[i].spouseIds[j]>>, <<ps[i].spouseIds[j], ps[i].id>>} :
                  j \in DOMAIN ps[i].spouseIds} : i \in DOMAIN ps}

ParentEdges(ps) == UNION {{<<ps[i].id, q>> : q \in Parents(ps[i])} : i \in DOMAIN ps}

RECURSIVE ReachFrom(_, _, _)
ReachFrom(E, S, k) ==
  IF k = 0 THEN S
  ELSE ReachFrom(E, S \cup {e[2] : e \in {f \in E : f[1] \in S}}, k - 1)

\* the ids reached from a by one edge or more
Reachable(E, a) == ReachFrom(E, {e[2] : e \in {f \in E : f[1] = a}}, Cardinality(E))

\* No assignment has child > parent on every childrenIds entry and equality
\* on every spouseIds entry: some childrenIds entry leads back to its parent.
\* A pass of step 3 without a change is such an assignment, so on these
\* graphs the while loop of step 3 has no last pass.
NoFixedPoint(ps) ==
  \E e \in ChildEdges(ps) :
     e[1] \in {e[2]} \cup Reachable(ChildEdges(ps) \cup SpouseEdges(ps), e[2])

\* MaxPasses is sound and enough: the model reports a call as not returning
\* only on graphs where step 3 cannot end, and on each of them.
HungIsDivergence == hung => NoFixedPoint(persons)
NoFixedPointHangs == (phase # "input" /\ NoFixedPoint(persons)) => hung

\* Some assignment of generations has every person below its parents and
\* level with its spouses: no fatherId or motherId link leads back, through
\* parent links downwards and spouse entries, to the parent it names.
LinksConsistent(ps) ==
  \A e \in ParentEdges(ps) :
     e[2] \notin {e[1]} \cup Reachable({<<f[2], f[1]>> : f \in ParentEdges(ps)}
                                       \cup SpouseEdges(ps), e[1])

\* childrenIds may miss a child but names nobody else: each entry is a
\* person whose fatherId or motherId is the owner of the list
ChildrenAreLinked(ps) ==
  \A i \in DOMAIN ps : \A j \in DOMAIN ps[i].childrenIds :
     /\ Has(ps, ps[i].childrenIds[j])
     /\ ps[i].id \in Parents(Person(ps, ps[i].childrenIds[j]))

\* C1 (on inputs whose parent and spouse links can all be met at once and
\* whose childrenIds lists hold no wrong entry): after layout returns every
\* person has generation >= 0 and is at least one generation below each of
\* its parents present in the pedigree.
C1_BelowParents ==
  (LaidOut /\ LinksConsistent(persons) /\ ChildrenAreLinked(persons)) =>
    \A i \in DOMAIN persons :
       /\ GenerationOf(persons[i].id) >= 0
       /\ \A q \in Parents(persons[i]) \cap Ids(persons) :
             GenerationOf(persons[i].id) >= GenerationOf(q) + 1

\* C2: after layout returns, two persons of the pedigree of whom one lists
\* the other in spouseIds have the same generation.
C2_SpousesSameGeneration ==
  LaidOut =>
    \A i, j \in DOMAIN persons :
       Includes(persons[i].spouseIds, persons[j].id) =>
         GenerationOf(persons[i].id) = GenerationOf(persons[j].id)

\* a one-sided spouse entry between two persons below generation 0
C2_Witness ==
  /\ LaidOut
  /\ \E i, j \in DOMAIN persons :
       /\ i # j
       /\ Includes(persons[i].spouseIds, persons[j].id)
       /\ ~Includes(persons[j].spouseIds, persons[i].id)
       /\ GenerationOf(persons[i].id) >= 1

\* C3: after layout returns, two nodes of one generation with no node
\* strictly between them are at least nodeWidth + spouseSpacing apart when
\* one lists the other in spouseIds, and nodeWidth + horizontalSpacing
\* apart otherwise.
RequiredGap(a, b) ==
  (nodeWidth + (IF Includes(Person(persons, a.person).spouseIds, b.person)
                   \/ Includes(Person(persons, b.person).spouseIds, a.person)
                THEN spouseSpacing ELSE horizontalSpacing)) * Px

Neighbours(i, j) ==
  /\ i # j
  /\ layoutNodes[i].generation = layoutNodes[j].generation
  /\ layoutNodes[i].x <= layoutNodes[j].x
  /\ ~\E k \in DOMAIN layoutNodes :
        /\ layoutNodes[k].generation = layoutNodes[i].generation
        /\ layoutNodes[i].x < layoutNodes[k].x
        /\ layoutNodes[k].x < layoutNodes[j].x

C3_NoCollisions ==
  LaidOut =>
    \A i, j \in DOMAIN layoutNodes :
       Neighbours(i, j) =>
         layoutNodes[j].x - layoutNodes[i].x >= RequiredGap(layoutNodes[i], layoutNodes[j])

\* a generation with a spouse pair next to a third node
C3_Witness ==
  /\ LaidOut
  /\ \E i, j, k \in DOMAIN layoutNodes :
       /\ Neighbours(i, j) /\ Neighbours(j, k)
       /\ RequiredGap(layoutNodes[i], layoutNodes[j]) = (nodeWidth + spouseSpacing) * Px
       /\ RequiredGap(layoutNodes[j], layoutNodes[k]) = (nodeWidth + horizontalSpacing) * Px

CircularParents(ps) ==
  \E i \in DOMAIN ps : ps[i].id \in Reachable(ParentEdges(ps), ps[i].id)

\* C4: layout returns on a pedigree whose parent links are circular, also
\* when the childrenIds lists mirror those links.
C4_CircularParentsReturn ==
  (phase # "input" /\ CircularParents(persons) /\ ChildrenAreLinked(persons)) => ~hung

\* C5: every layout call the editor makes returns, also when a person is
\* recorded as the spouse of their own child (parent links without a cycle).
C5_RelaxationEnds ==
  ~CircularParents(persons) => ~hung

\* C6: a second layout of the unchanged graph returns the nodes of the
\* first (generation, x, y and order of every person), whatever x and y
\* the first layout or a drag left on the Person records.
C6_Idempotent ==
  (phase \in {"relaid", "restored"} /\ ~hung) => layoutNodes = prevNodes

\* the second layout follows a drag, of a pedigree of two generations
C6_Witness ==
  /\ phase = "restored"
  /\ ~hung
  /\ \E i, j \in DOMAIN layoutNodes :
       layoutNodes[i].generation # layoutNodes[j].generation

\* the fields of the pedigree that layout is not to write
Links(ps) == [i \in DOMAIN ps |-> [ps[i] EXCEPT !.x = 0, !.y = 0, !.generation = 0]]

\* C7: a layout call leaves the relationships and every person's id,
\* fatherId, motherId, spouseIds and childrenIds as they were.
C7_LayoutFrame ==
  [][phase' \in {"loaded", "relaid", "restored"} =>
       /\ relationships' = relationships
       /\ Links(persons') = Links(persons)]_vars

\* layout has returned on a pedigree with a relationship and linked persons
C7_Witness ==
  /\ LaidOut
  /\ relationships # <<>>
  /\ \E i \in DOMAIN persons :
       /\ persons[i].spouseIds # <<>>
       /\ persons[i].childrenIds # <<>>
       /\ persons[i].x # Undefined

IsIsolated(p) ==
  /\ p.fatherId = NoId /\ p.motherId = NoId
  /\ p.spouseIds = <<>> /\ p.childrenIds = <<>>

\* C8: the layout of the empty pedigree has no node, and the layout of one
\* isolated person (no relationship) is one node at generation 0, x = 0,
\* y = 50.
C8_EmptyAndSingle ==
  LaidOut =>
    /\ persons = <<>> => layoutNodes = <<>>
    /\ (Len(persons) = 1 /\ IsIsolated(persons[1]) /\ relationships = <<>>) =>
         layoutNodes = <<[id |-> persons[1].id, person |-> persons[1].id,
                          generation |-> 0, x |-> 0, y |-> TopMargin * Px,
                          order |-> 0]>>

\* one isolated person has been laid out
C8_Witness ==
  /\ LaidOut
  /\ Len(persons) = 1 /\ IsIsolated(persons[1]) /\ relationships = <<>>
  /\ Len(layoutNodes) = 1

\* the empty pedigree has been laid out
C8_WitnessEmpty == LaidOut /\ persons = <<>>

NodeXs == [i \in DOMAIN layoutNodes |-> layoutNodes[i].x]
NodeYs == [i \in DOMAIN layoutNodes |-> layoutNodes[i].y]

\* C9: in a non-empty result the smallest and the largest x add up to 0
\* and the smallest y is 50.
C9_Centered ==
  (LaidOut /\ persons # <<>>) =>
    /\ SeqMin(NodeXs) + SeqMax(NodeXs) = 0
    /\ SeqMin(NodeYs) = TopMargin * Px

\* a result of two generations and of more than one x
C9_Witness ==
  /\ LaidOut
  /\ persons # <<>>
  /\ SeqMin(NodeXs) < 0
  /\ SeqMax(NodeYs) > SeqMin(NodeYs)

\* C10: in a non-empty result no person holds a generation below 0 and
\* some person holds generation 0, also when spouseIds or childrenIds
\* name a person that is absent.
C10_SmallestGenerationIsZero ==
  (LaidOut /\ persons # <<>>) =>
    /\ \A i \in DOMAIN persons : persons[i].generation >= 0
    /\ \E i \in DOMAIN persons : persons[i].generation = 0

\* two generations, with an absent person named in spouseIds or childrenIds
C10_Witness ==
  /\ LaidOut
  /\ \E i \in DOMAIN persons : persons[i].generation >= 1
  /\ \E i \in DOMAIN persons :
       Includes(persons[i].spouseIds, Ghost) \/ Includes(persons[i].childrenIds, Ghost)

\* the ids that persons refer to without being persons of the pedigree
DanglingIds(ps) ==
  (UNION {Parents(ps[i]) \cup {ps[i].spouseIds[j] : j \in DOMAIN ps[i].spouseIds}
            \cup {ps[i].childrenIds[j] : j \in DOMAIN ps[i].childrenIds}
          : i \in DOMAIN ps}) \ Ids(ps)

\* C11: the returned map has exactly one entry per person: its keys are the
\* person ids, an id that is only referred to has no entry, and the node of
\* each key refers to the person with that id.
C11_OneNodePerPerson ==
  LaidOut =>
    /\ Ids(layoutNodes) = Ids(persons)
    /\ Len(layoutNodes) = Len(persons)
    /\ Ids(layoutNodes) \cap DanglingIds(persons) = {}
    /\ \A i \in DOMAIN layoutNodes : layoutNodes[i].person = layoutNodes[i].id

\* a result of two generations for persons that refer to an absent id
C11_Witness ==
  /\ LaidOut
  /\ DanglingIds(persons) # {}
  /\ \E i, j \in DOMAIN layoutNodes :
       layoutNodes[i].generation # layoutNodes[j].generation

\* exactly two persons, each the only spouse of the other, joined by one
\* relationship, without parents or children
IsCouple(ps, rels) ==
  /\ Len(ps) = 2
  /\ ps[1].spouseIds = <<ps[2].id>> /\ ps[2].spouseIds = <<ps[1].id>>
  /\ \A i \in DOMAIN ps :
       ps[i].fatherId = NoId /\ ps[i].motherId = NoId /\ ps[i].childrenIds = <<>>
  /\ Len(rels) = 1
  /\ {rels[1].person1Id, rels[1].person2Id} = Ids(ps)
  /\ rels[1].childrenIds = <<>>

\* C12: a couple without children is laid out at generation 0 on one y,
\* the two x values spouseSpacing + nodeWidth (110) apart.
C12_CoupleApart ==
  (LaidOut /\ IsCouple(persons, relationships)) =>
    /\ \A i \in DOMAIN layoutNodes : layoutNodes[i].generation = 0
    /\ NodeOf(persons[1].id).y = NodeOf(persons[2].id).y
    /\ Abs(NodeOf(persons[1].id).x - NodeOf(persons[2].id).x)
         = (spouseSpacing + nodeWidth) * Px
    /\ (spouseSpacing + nodeWidth) * Px = 110 * Px

\* the couple has been laid out
C12_Witness ==
  LaidOut /\ IsCouple(persons, relationships) /\ Len(layoutNodes) = 2

SeqSet(s) == {s[i] : i \in DOMAIN s}
Founders(ps) == {ps[i].id : i \in {j \in DOMAIN ps : Parents(ps[j]) = {}}}

\* one married founder couple and k >= 1 children of both, every link
\* present in fatherId / motherId, childrenIds and the relationship
IsFamily(ps, rels) ==
  /\ Cardinality(Founders(ps)) = 2
  /\ Len(ps) >= 3
  /\ Len(rels) = 1
  /\ {rels[1].person1Id, rels[1].person2Id} = Founders(ps)
  /\ SeqSet(rels[1].childrenIds) = Ids(ps) \ Founders(ps)
  /\ \A i \in DOMAIN ps :
       IF ps[i].id \in Founders(ps)
       THEN /\ SeqSet(ps[i].spouseIds) = Founders(ps) \ {ps[i].id}
            /\ SeqSet(ps[i].childrenIds) = Ids(ps) \ Founders(ps)
       ELSE /\ Parents(ps[i]) = Founders(ps)
            /\ ps[i].spouseIds = <<>> /\ ps[i].childrenIds = <<>>

XsOf(ids) == {NodeOf(id).x : id \in ids}
MinOf(S) == CHOOSE v \in S : \A w \in S : v <= w
MaxOf(S) == CHOOSE v \in S : \A w \in S : v >= w

\* C13: a married founder couple with k >= 1 children of both is laid out
\* with the couple at generation 0, the children at generation 1, and the
\* midpoint of the leftmost and rightmost child under the couple's midpoint.
C13_ChildrenUnderCouple ==
  (LaidOut /\ IsFamily(persons, relationships)) =>
    /\ \A id \in Founders(persons) : GenerationOf(id) = 0
    /\ \A id \in Ids(persons) \ Founders(persons) : GenerationOf(id) = 1
    /\ MinOf(XsOf(Ids(persons) \ Founders(persons)))
         + MaxOf(XsOf(Ids(persons) \ Founders(persons)))
       = MinOf(XsOf(Founders(persons))) + MaxOf(XsOf(Founders(persons)))

\* the couple has been laid out with two children or more
C13_Witness ==
  /\ LaidOut
  /\ IsFamily(persons, relationships)
  /\ Len(persons) >= 4
  /\ Cardinality(XsOf(Ids(persons))) = Len(persons)

\* <<e, f, g>>: e has the two spouses f and g through two relationships,
\* each with children of its own
TwoSpouseTriples(ps, rels) ==
  {t \in Ids(ps) \X Ids(ps) \X Ids(ps) :
     /\ t[2] # t[3] /\ t[1] \notin {t[2], t[3]}
     /\ SeqSet(Person(ps, t[1]).spouseIds) = {t[2], t[3]}
     /\ Person(ps, t[2]).spouseIds = <<t[1]>>
     /\ Person(ps, t[3]).spouseIds = <<t[1]>>
     /\ Len(rels) = 2
     /\ {rels[1].person1Id, rels[1].person2Id} = {t[1], t[2]}
     /\ {rels[2].person1Id, rels[2].person2Id} = {t[1], t[3]}
     /\ rels[1].childrenIds # <<>> /\ rels[2].childrenIds # <<>>
     /\ SeqSet(rels[1].childrenIds) \cap SeqSet(rels[2].childrenIds) = {}}

OrdersOfGeneration(g) ==
  {layoutNodes[i].order : i \in {j \in DOMAIN layoutNodes : layoutNodes[j].generation = g}}

NodesOfGeneration(g) == {j \in DOMAIN layoutNodes : layoutNodes[j].generation = g}

\* C14: a person e with two spouses f and g through two relationships is
\* ordered between them, f, e, g taking three consecutive places of their
\* generation; every place of the generation is taken by one person, and
\* the three nodes are at least a node's width apart.
C14_SharedPersonBetweenSpouses ==
  LaidOut =>
    \A t \in TwoSpouseTriples(persons, relationships) :
      /\ NodeOf(t[2]).order + 1 = NodeOf(t[1]).order
      /\ NodeOf(t[1]).order + 1 = NodeOf(t[3]).order
      /\ GenerationOf(t[2]) = GenerationOf(t[1])
      /\ GenerationOf(t[3]) = GenerationOf(t[1])
      /\ OrdersOfGeneration(GenerationOf(t[1]))
           = 0 .. (Cardinality(NodesOfGeneration(GenerationOf(t[1]))) - 1)
      /\ \A a, b \in {t[1], t[2], t[3]} :
           a # b => Abs(NodeOf(a).x - NodeOf(b).x) >= nodeWidth * Px

\* such a person has been laid out with both spouses and the children
C14_Witness ==
  /\ LaidOut
  /\ TwoSpouseTriples(persons, relationships) # {}
  /\ Len(layoutNodes) = 5

\* C15: two persons of one generation that list each other, and nobody
\* else, in spouseIds take consecutive places in the order of the
\* generation.
C15_SpousesAdjacent ==
  LaidOut =>
    \A i, j \in DOMAIN persons :
      (/\ i # j
       /\ persons[i].spouseIds = <<persons[j].id>>
       /\ persons[j].spouseIds = <<persons[i].id>>
       /\ GenerationOf(persons[i].id) = GenerationOf(persons[j].id))
      => Abs(NodeOf(persons[i].id).order - NodeOf(persons[j].id).order) = 1

PersonsOfGeneration(g) == {i \in DOMAIN persons : GenerationOf(persons[i].id) = g}

\* C16: in a generation where nobody has a spouse, the persons with one
\* (fatherId, motherId) pair take consecutive places in the order of the
\* generation: nobody with another pair is ordered between two of them.
C16_SiblingsContiguous ==
  LaidOut =>
    \A i, j, k \in DOMAIN persons :
      (/\ \A m \in PersonsOfGeneration(GenerationOf(persons[i].id)) :
            persons[m].spouseIds = <<>>
       /\ GenerationOf(persons[j].id) = GenerationOf(persons[i].id)
       /\ GenerationOf(persons[k].id) = GenerationOf(persons[i].id)
       /\ ParentKey(persons, persons[i].id) = ParentKey(persons, persons[j].id)
       /\ NodeOf(persons[i].id).order < NodeOf(persons[k].id).order
       /\ NodeOf(persons[k].id).order < NodeOf(persons[j].id).order)
      => ParentKey(persons, persons[k].id) = ParentKey(persons, persons[i].id)

\* the pedigree with every fatherId and motherId that names no person
\* replaced by null
WithoutDanglingParents(ps) ==
  [i \in DOMAIN ps |->
     [ps[i] EXCEPT !.fatherId = IF Has(ps, @) THEN @ ELSE NoId,
                   !.motherId = IF Has(ps, @) THEN @ ELSE NoId]]

GenerationsOf(ps) == [i \in DOMAIN ps |-> ps[i].generation]

\* C17: layout gives every person the generation it gives on the same
\* pedigree with the dangling fatherId and motherId values replaced by null.
C17_DanglingParentIgnored ==
  LaidOut =>
    GenerationsOf(persons)
      = GenerationsOf(assignGenerations(WithoutDanglingParents(persons)).persons)

\* parent -> child, from childrenIds and from fatherId and motherId
StrictEdges(ps) == ChildEdges(ps) \cup {<<f[2], f[1]>> : f \in ParentEdges(ps)}

\* some assignment has every child below its parents and every person level
\* with its spouses
Satisfiable(ps) ==
  \A e \in StrictEdges(ps) :
     e[1] \notin {e[2]} \cup Reachable(StrictEdges(ps) \cup SpouseEdges(ps), e[2])

Satisfies(ps, h) ==
  /\ \A e \in StrictEdges(ps) : h[e[2]] >= h[e[1]] + 1
  /\ \A e \in SpouseEdges(ps) : h[e[1]] = h[e[2]]

GenerationById(ps) == [id \in Ids(ps) |-> Person(ps, id).generation]

Reverse(s) == [i \in DOMAIN s |-> s[Len(s) + 1 - i]]

\* the same graph with the persons in the order f and, when r, the entries
\* of every spouseIds and childrenIds in the opposite order
Reordered(ps, f, r) ==
  [i \in DOMAIN ps |->
     IF r THEN [ps[f[i]] EXCEPT !.spouseIds = Reverse(@), !.childrenIds = Reverse(@)]
     ELSE ps[f[i]]]

IsLeast(ps, g) ==
  \A h \in [Ids(ps) -> 0..Len(ps)] :
     Satisfies(ps, h) => \A id \in Ids(ps) : g[id] <= h[id]

\* C18: on a graph whose links all resolve and whose constraints can be
\* satisfied, the generations are the pointwise smallest assignment with
\* every child at least one below each parent and spouses level, and every
\* order of the persons and of the entries of their lists gives the same.
C18_LeastAssignmentInAnyOrder ==
  (LaidOut /\ DanglingIds(persons) = {} /\ Satisfiable(persons)) =>
    /\ Satisfies(persons, GenerationById(persons))
    /\ IsLeast(persons, GenerationById(persons))
    /\ \A f \in Orders(Len(persons)), r \in BOOLEAN :
         GenerationById(assignGenerations(Reordered(persons, f, r)).persons)
           = GenerationById(persons)

\* C19: resolveCollisions is idempotent: whatever the positions of the nodes
\* of a generation, nodes at equal x included, after one call of
\* resolveCollisions detectCollisions finds no collision in that generation
\* and a second call moves no node.
ResolvedOnce(ps, once, generation) ==
  /\ ~detectCollisions(ps, once, generation)
  /\ resolveCollisions(ps, once, generation) = once

C19_ResolveOnceIsEnough ==
  phase \in {"positions", "resolved"} =>
    \A generation \in CollisionGenerations :
      ResolvedOnce(persons, resolveCollisions(persons, layoutNodes, generation), generation)

\* three nodes of one generation, two of them at the same x, have been
\* resolved by a call that moved some of them
C19_Witness ==
  /\ phase = "resolved"
  /\ Len(prevNodes) = 3
  /\ \E generation \in CollisionGenerations :
       /\ \A i \in DOMAIN prevNodes : prevNodes[i].generation = generation
       /\ \E i, j \in DOMAIN prevNodes : i # j /\ prevNodes[i].x = prevNodes[j].x
       /\ detectCollisions(persons, prevNodes, generation)
       /\ layoutNodes = resolveCollisions(persons, prevNodes, generation)
       /\ layoutNodes # prevNodes
       /\ ~detectCollisions(persons, layoutNodes, generation)

\* C20: a manual drag bypasses the layout and touches one node only:
\* updatePersonPosition(id, x, y) sets x and y of person id and of layout
\* node id to the given values, leaves every other field of that person and
\* node (generation and order included), every other person and node and all
\* relationships as they were, and leaves the whole state unchanged when id
\* is not a person of the pedigree.
MovedTo(old, new, id, pt) ==
  /\ Len(new) = Len(old)
  /\ \A i \in DOMAIN old :
       new[i] = IF old[i].id = id THEN [old[i] EXCEPT !.x = pt.x, !.y = pt.y] ELSE old[i]

DraggedTo(id, pt) ==
  /\ relationships' = relationships
  /\ hung' = hung
  /\ IF Has(persons, id)
     THEN /\ MovedTo(persons, persons', id, pt)
          /\ MovedTo(layoutNodes, layoutNodes', id, pt)
          /\ Person(persons', id).x = pt.x /\ Person(persons', id).y = pt.y
          /\ layoutNodes'[Find(layoutNodes', id)].x = pt.x
          /\ layoutNodes'[Find(layoutNodes', id)].y = pt.y
     ELSE persons' = persons /\ layoutNodes' = layoutNodes

C20_DragTouchesOneNode ==
  [][((phase = "loaded" /\ phase' = "dragged") \/ lastDrag' # lastDrag) =>
       DraggedTo(lastDrag'.id, [x |-> lastDrag'.x, y |-> lastDrag'.y])]_vars

\* one of several persons has been dragged away from where the layout put
\* them, the others are where the layout put them
C20_Witness ==
  /\ phase = "dragged"
  /\ Len(layoutNodes) >= 2
  /\ Has(persons, lastDrag.id)
  /\ MovedTo(prevNodes, layoutNodes, lastDrag.id, lastDrag)
  /\ layoutNodes # prevNodes
  /\ Person(persons, lastDrag.id).x = lastDrag.x
  /\ Person(persons, lastDrag.id).y = lastDrag.y
  /\ \E other \in Ids(persons) :
       other # lastDrag.id /\ Person(persons, other).x = prevNodes[Find(prevNodes, other)].x

\* C21: the layout is recomputed wholesale on every structural mutation:
\* after every store action that returns, the keys of layoutNodes are the
\* ids of the persons of the pedigree, and after an action that added or
\* removed a person or a relationship layoutNodes is what layout returns for
\* the new pedigree.
KeysArePersons(ps, nodes) ==
  /\ Len(nodes) = Len(ps)
  /\ Ids(nodes) = Ids(ps)

StructureChanged ==
  \/ Ids(persons') # Ids(persons)
  \/ Ids(relationships') # Ids(relationships)

C21_LayoutFollowsPedigree ==
  [][~hung' =>
       /\ KeysArePersons(persons', layoutNodes')
       /\ StructureChanged => layoutNodes' = layout(persons', relationships').nodes]_vars

\* persons and a relationship have been added and a person deleted, and
\* layoutNodes holds the persons that are left
C21_Witness ==
  /\ phase = "store"
  /\ ~hung
  /\ Len(persons) >= 2
  /\ nextId > Len(persons)
  /\ Len(relationships) >= 1
  /\ KeysArePersons(persons, layoutNodes)

\* C22: calculateSafeOffset(group, desired, positions, g) tests the shifts
\* 0, 5, 10, ... in the direction of desired, below the desired shift, and
\* returns the largest one tested that makes no collision: the result is 0
\* or has the sign of desired, is a multiple of the step no larger than
\* |desired|, and, when the unshifted positions have no collision, the
\* shifted positions have none either and the next shift, if there is one
\* below |desired|, has one.
SafeOffsetOk(siblings, desired, safe, positions, generation) ==
  /\ safe = 0 \/ (safe > 0 /\ desired > 0) \/ (safe < 0 /\ desired < 0)
  /\ Abs(safe) <= Abs(desired)
  /\ Abs(safe) % (SafeStep * Px) = 0
  /\ ~checkOffsetCollision(siblings, 0, positions, generation) =>
       /\ ~checkOffsetCollision(siblings, safe, positions, generation)
       /\ ~checkOffsetCollision(siblings, 0, ShiftSiblings(positions, siblings, 1, safe),
                                generation)
       /\ \/ Abs(safe) + SafeStep * Px >= Abs(desired)
          \/ checkOffsetCollision(siblings, safe + OffsetStep(desired), positions, generation)

C22_SafeOffsetIsSafe ==
  phase = "positions" =>
    \A generation \in CollisionGenerations, desiredOffset \in DesiredOffsets :
      \A group \in GroupsOf(persons, generation) :
        SafeOffsetOk(SetToSortedSeq(group), desiredOffset,
                     calculateSafeOffset(SetToSortedSeq(group), desiredOffset,
                                         layoutNodes, generation),
                     layoutNodes, generation)

\* a group has been shifted toward a neighbour by less than was asked,
\* stopping where the next step would have made a collision
C22_Witness ==
  /\ phase = "shifted"
  /\ layoutNodes # prevNodes
  /\ \E generation \in CollisionGenerations, desiredOffset \in DesiredOffsets :
       \E group \in GroupsOf(persons, generation) :
         /\ ~checkOffsetCollision(SetToSortedSeq(group), 0, prevNodes, generation)
         /\ checkOffsetCollision(SetToSortedSeq(group), desiredOffset, prevNodes, generation)
         /\ layoutNodes =
              ShiftSiblings(prevNodes, SetToSortedSeq(group), 1,
                            calculateSafeOffset(SetToSortedSeq(group), desiredOffset,
                                                prevNodes, generation))
         /\ ~checkOffsetCollision(SetToSortedSeq(group), 0, layoutNodes, generation)

\* C23: in the parent-centering pass the shift of a parent, or of a couple
\* sharing children, toward the midpoint of their children stops short of a
\* collision: for every parent adjustParentPositions moves, the positions of
\* the parent's generation right after the move, before resolveCollisions
\* runs, hold no pair of nodes closer than their minimum distance that was
\* not already that close before the move.
CollidingPairs(ps, positions, gen) ==
  {pair \in Ids(positions) \X Ids(positions) :
     /\ pair[1] # pair[2]
     /\ positions[Find(positions, pair[1])].generation = gen
     /\ positions[Find(positions, pair[2])].generation = gen
     /\ Abs(positions[Find(positions, pair[1])].x - positions[Find(positions, pair[2])].x)
          < minDistance(ps, pair[1], pair[2])}

MoveIsSafe(ps, before, after, gen) ==
  CollidingPairs(ps, after, gen) \subseteq CollidingPairs(ps, before, gen)

\* the loop of adjustParentPositions over the persons of a generation, each
\* move compared with the positions it started from
RECURSIVE ParentMovesSafe(_, _, _, _, _)
ParentMoveSafe(ps, inGen, gen, i, st, moved) ==
  /\ MoveIsSafe(ps, st.positions, moved.positions, gen)
  /\ ParentMovesSafe(ps, inGen, gen, i + 1, moved)

ParentMovesSafe(ps, inGen, gen, i, st) ==
  IF i > Len(inGen) THEN TRUE
  ELSE ParentMoveSafe(ps, inGen, gen, i, st,
                      AdjustPerson(ps, Person(ps, inGen[i]), gen, st))

\* the generations from the bottom one up, as adjustParentPositions takes them
RECURSIVE AllParentMovesSafe(_, _, _, _, _)
AllParentMovesSafe(ps, sorted, genKeys, k, positions) ==
  IF k < 1 THEN TRUE
  ELSE /\ ParentMovesSafe(ps, sorted[genKeys[k]], genKeys[k], 1,
                          [positions |-> positions, processedAsCouple |-> {}])
       /\ AllParentMovesSafe(ps, sorted, genKeys, k - 1,
            ResolveLoop(ps,
              AdjustParentsOfGen(ps, sorted[genKeys[k]], genKeys[k], 1,
                                 [positions |-> positions, processedAsCouple |-> {}]).positions,
              genKeys[k], ParentIterations))

ParentMovesSafeOf(gps, sorted) ==
  AllParentMovesSafe(gps, sorted, SetToSortedSeq(DOMAIN sorted), Cardinality(DOMAIN sorted),
                     calculatePositions(gps, sorted))

ParentMovesSafeIn(generations, rels) ==
  ParentMovesSafeOf(generations.persons, Sorted(generations.persons, rels, generations.pg))

C23_ParentShiftStopsShort ==
  (LaidOut /\ Len(persons) > 0) =>
    ParentMovesSafeIn(assignGenerations(persons), relationships)

\* C24: resolveCollisions(positions, g) only shifts nodes of generation g to
\* the right: no x decreases, nothing but x changes, the leftmost node of g
\* and every node of another generation keep their x, the nodes of g keep
\* their left-to-right order, and the gap of each adjacent pair is its
\* minimum distance when it was below it and is what it was otherwise (the
\* offending node and every node to its right move by the deficit).
GapsRepaired(ps, before, after) ==
  /\ Len(after) = Len(before)
  /\ \A i \in DOMAIN before : after[i].id = before[i].id
  /\ Len(before) > 0 => after[1].x = before[1].x
  /\ \A i \in 2..Len(before) :
       after[i].x - after[i - 1].x =
         Max(before[i].x - before[i - 1].x,
             minDistance(ps, before[i - 1].person, before[i].person))

OnlyShiftedRight(ps, before, after, generation) ==
  /\ Len(after) = Len(before)
  /\ \A i \in DOMAIN before :
       /\ after[i] = [before[i] EXCEPT !.x = after[i].x]
       /\ after[i].x >= before[i].x
       /\ before[i].generation # generation => after[i].x = before[i].x
  /\ GapsRepaired(ps, NodesInGen(before, generation), NodesInGen(after, generation))

C24_ResolveShiftsRight ==
  phase \in {"positions", "resolved"} =>
    \A generation \in CollisionGenerations :
      OnlyShiftedRight(persons, layoutNodes,
                       resolveCollisions(persons, layoutNodes, generation), generation)

\* a call has moved a node of a generation of two nodes to the right and
\* left the node of the other generation where it was
C24_Witness ==
  /\ phase = "resolved"
  /\ \E generation \in CollisionGenerations :
       /\ layoutNodes = resolveCollisions(persons, prevNodes, generation)
       /\ \E i \in DOMAIN prevNodes : prevNodes[i].generation # generation
       /\ Len(NodesInGen(prevNodes, generation)) >= 2
       /\ \E i \in DOMAIN prevNodes :
            /\ prevNodes[i].generation = generation
            /\ layoutNodes[i].x > prevNodes[i].x
       /\ OnlyShiftedRight(persons, prevNodes, layoutNodes, generation)

\* C25: after layout returns every node's y is given by its generation
\* alone, y = 50 + generation * (nodeHeight + verticalSpacing), so the nodes
\* of a generation share one y and every person is strictly below each of
\* their parents that the pedigree holds.
YFollowsGeneration ==
  \A i \in DOMAIN layoutNodes :
     layoutNodes[i].y
       = (TopMargin + layoutNodes[i].generation * (nodeHeight + verticalSpacing)) * Px

BelowOwnParents ==
  \A i \in DOMAIN persons :
     \A parent \in Parents(persons[i]) :
        Has(persons, parent) => NodeOf(persons[i].id).y > NodeOf(parent).y

\* the second half on the inputs of C1: parent and spouse links that can all
\* be met at once, no wrong childrenIds entry
C25_RowsByGeneration ==
  LaidOut =>
    /\ YFollowsGeneration
    /\ (LinksConsistent(persons) /\ ChildrenAreLinked(persons)) => BelowOwnParents

\* the first half alone: y is given by the generation
C25_YFollowsGeneration == LaidOut => YFollowsGeneration

\* C26: for every input graph, two relationships joining the same pair and a
\* relationship of a person with itself included, the order that
\* sortGenerationWithFamilyUnits gives a generation holds each person of the
\* generation exactly once: the order values of the generation's n nodes are
\* exactly 0 .. n - 1.
C26_OrderIsPermutation ==
  LaidOut =>
    \A i \in DOMAIN layoutNodes :
       OrdersOfGeneration(layoutNodes[i].generation)
         = 0..(Cardinality(NodesOfGeneration(layoutNodes[i].generation)) - 1)

\* C27: in the map layout returns the order field agrees with the
\* horizontal position: of two nodes of one generation the one with the
\* smaller order has the strictly smaller x, so no pass has moved a person
\* past a neighbour.
C27_OrderAgreesWithX ==
  LaidOut =>
    \A i, j \in DOMAIN layoutNodes :
       (/\ layoutNodes[i].generation = layoutNodes[j].generation
        /\ layoutNodes[i].order < layoutNodes[j].order)
         => layoutNodes[i].x < layoutNodes[j].x

\* C28: the collision test of the centering passes agrees with the collision
\* detector: whenever checkOffsetCollision(group, offset, positions, g) is
\* false, adding offset to the x of every node of the group gives positions
\* for which detectCollisions(positions, g) is false, also when adjacent
\* nodes are spouses.
OffsetTestAgrees(ps, siblings, offset, positions, generation) ==
  ~checkOffsetCollision(siblings, offset, positions, generation) =>
     ~detectCollisions(ps, ShiftSiblings(positions, siblings, 1, offset), generation)

C28_OffsetTestAgreesWithDetector ==
  phase = "positions" =>
    \A generation \in CollisionGenerations, offset \in DesiredOffsets :
      \A group \in GroupsOf(persons, generation) :
        OffsetTestAgrees(persons, SetToSortedSeq(group), offset, layoutNodes, generation)

\* C29: after deletePerson(id) on a pedigree that holds id, the id is
\* referenced nowhere in the store: no remaining person has it as fatherId
\* or motherId or in spouseIds or childrenIds, no remaining relationship has
\* it as person1Id or person2Id or in its childrenIds, and layoutNodes has
\* no entry for it.
Unreferenced(s, id) ==
  /\ ~Has(s.persons, id)
  /\ \A i \in DOMAIN s.persons :
       /\ s.persons[i].fatherId # id
       /\ s.persons[i].motherId # id
       /\ ~Includes(s.persons[i].spouseIds, id)
       /\ ~Includes(s.persons[i].childrenIds, id)
  /\ \A r \in DOMAIN s.relationships :
       /\ s.relationships[r].person1Id # id
       /\ s.relationships[r].person2Id # id
       /\ ~Includes(s.relationships[r].childrenIds, id)
  /\ ~Has(s.layoutNodes, id)

DeletedLeavesNoReference(s) ==
  \A id \in Ids(persons) : ~Has(s.persons, id) => Unreferenced(s, id)

C29_DeletedPersonUnreferenced ==
  [][~hung' =>
       DeletedLeavesNoReference([persons |-> persons', relationships |-> relationships',
                                 layoutNodes |-> layoutNodes'])]_vars

\* C30: after any sequence of addPerson, addRelationship, deleteRelationship
\* and deletePerson from the empty pedigree, relationships being added only
\* between persons of the pedigree and possibly more than once for a pair,
\* the spouse lists match the relationship records: b is in a.spouseIds
\* exactly when some relationship of the pedigree joins a and b.
Joined(rels, a, b) ==
  \E r \in DOMAIN rels :
     \/ rels[r].person1Id = a /\ rels[r].person2Id = b
     \/ rels[r].person1Id = b /\ rels[r].person2Id = a

C30_SpousesMatchRelationships ==
  (phase = "store" /\ ~hung) =>
    \A a, b \in Ids(persons) :
       Includes(Person(persons, a).spouseIds, b) <=> Joined(relationships, a, b)

=============================================================================
